---- MODULE Spec2Model ----
(***************************************************************************)
(* Bluetooth trilateration simulator (app.js, version 1.2) and the wall     *)
(* attenuation prototype (wall-attenuation-prototype.js).                   *)
(*                                                                         *)
(* Number representation.  JavaScript numbers are doubles; here they are    *)
(* integers in fixed point:                                                 *)
(*   - canvas coordinates are whole pixels;                                 *)
(*   - distances (metres and pixels), signal strengths (dBm), logarithms    *)
(*     and exponents carry 20 fractional bits: the integer v stands for     *)
(*     the real number v / Q, Q = 2^20;                                     *)
(*   - txPower, minRSSI and noiseStdDev are whole dB, and the variable      *)
(*     pathLossExponent holds tenths (27 stands for n = 2.7), so that the   *)
(*     product 10 * n of the source is the stored integer itself;           *)
(*   - squared radii and the coefficients C, F of the linear system are     *)
(*     whole square pixels, the estimated position whole pixels.            *)
(* Math.sqrt, Math.log10 and Math.pow(10, .) are library functions: they    *)
(* are computed by integer algorithms (Newton's square root, table          *)
(* interpolation of the logarithm and its inverse) that are monotone and    *)
(* accurate to about 1e-5 relative.                                         *)
(***************************************************************************)
EXTENDS Integers, Sequences, FiniteSets, TLC

VARIABLES
    radios,             \* this.radios: sequence of [x, y]; the label is R<index>
    numRadios,          \* this.numRadios
    device,             \* this.device: [x, y]
    txPower,            \* this.txPower (dBm at 1 m)
    pathLossExponent,   \* this.pathLossExponent, in tenths
    minRSSI,            \* this.minRSSI (dBm)
    enableNoise,        \* this.enableNoise
    noiseStdDev,        \* this.noiseStdDev (dB)
    estimatedPosition,  \* this.estimatedPosition: NULL or [x, y]
    statusMessage,      \* #statusMessage element: [show, text]
    measurements,       \* the list returned by the last performTrilateration
    dragging,           \* this.dragging: NULL or a reference to a radio / the device
    dragOffset,         \* this.dragOffset: [x, y]
    interactiveObjects, \* this.interactiveObjects: the meshes of the last render
    radiosGen,          \* which array of radio objects this.radios holds (identity)
    edits,              \* number of user events handled so far (exploration bound)
    rendered,           \* TRUE when no event was handled since the last frame
    probe,              \* last call of a pure function: [op, in, out]
    enableKalmanFilter, \* this.enableKalmanFilter (phase 1)
    kalmanR,            \* this.kalmanR, process noise, in 1/Q
    kalmanQ,            \* this.kalmanQ, measurement noise, in 1/Q
    rssiKalmanFilters,  \* this.rssiKalmanFilters: one filter per radio, by index
    enableHeatmap,      \* this.enableHeatmap
    rawRSSI,            \* per radio, the unfiltered RSSI of the last frame
    frames              \* number of phase 1 frames drawn (exploration bound)

kalmanVars == <<enableKalmanFilter, kalmanR, kalmanQ, rssiKalmanFilters,
                enableHeatmap, rawRSSI, frames>>

appVars == <<radios, numRadios, device, txPower, pathLossExponent, minRSSI,
             enableNoise, noiseStdDev, estimatedPosition, statusMessage,
             measurements, dragging, dragOffset, interactiveObjects, radiosGen,
             edits, rendered, kalmanVars>>

vars == <<radios, numRadios, device, txPower, pathLossExponent, minRSSI,
          enableNoise, noiseStdDev, estimatedPosition, statusMessage,
          measurements, dragging, dragOffset, interactiveObjects, radiosGen,
          edits, rendered, probe, kalmanVars>>

NULL == [null |-> TRUE]

-----------------------------------------------------------------------------
(* Fixed-point arithmetic and the Math library                              *)

Q == 2^20

Abs(v) == IF v < 0 THEN -v ELSE v

Max(a, b) == IF a >= b THEN a ELSE b

Min(a, b) == IF a <= b THEN a ELSE b

\* Newton's iteration for the whole part of the square root of N, from a
\* guess x above it.
RECURSIVE NewtonSqrt(_, _)
NewtonSqrt(N, x) ==
    LET y == (x + N \div x) \div 2
    IN  IF y >= x THEN x ELSE NewtonSqrt(N, y)

\* Math.sqrt of a whole number s < 2^20, in units of 1/Q (exact to 1/32).
MathSqrt(s) == IF s = 0 THEN 0 ELSE NewtonSqrt(s * (2^10), 2^15) * (2^15)

\* log10(1 + i/32) * Q for i = 0..32, rounded; the last entry is log10(2).
Log10Tab ==
    << 0, 14013, 27608, 40809, 53637, 66115, 78259, 90088, 101618, 112862,
       123836, 134552, 145021, 155255, 165264, 175058, 184645, 194035, 203235,
       212253, 221096, 229770, 238282, 246638, 254844, 262904, 270824, 278609,
       286263, 293790, 301195, 308481, 315653 >>

Log10Of2 == Log10Tab[33]

TabStep == Q \div 32

\* v = m * 2^e with Q <= m < 2Q: returns <<m, e>>.
RECURSIVE Normalise(_, _)
Normalise(m, e) ==
    IF m >= 2 * Q THEN Normalise(m \div 2, e + 1)
    ELSE IF m < Q THEN Normalise(m * 2, e - 1)
    ELSE <<m, e>>

\* Math.log10 of v / Q (v > 0), in units of 1/Q: linear interpolation of the
\* table on the mantissa, plus e * log10(2).
MathLog10(v) ==
    LET me    == Normalise(v, 0)
        m     == me[1]
        e     == me[2]
        i     == (m - Q) \div TabStep
        delta == (m - Q) % TabStep
        lo    == Log10Tab[i + 1]
        hi    == Log10Tab[i + 2]
    IN  e * Log10Of2 + lo + ((hi - lo) * delta) \div TabStep

\* The table segment i in lo..hi-1 with Log10Tab[i+1] <= f < Log10Tab[i+2].
RECURSIVE Segment(_, _, _)
Segment(f, lo, hi) ==
    IF hi - lo = 1 THEN lo
    ELSE LET mid == (lo + hi) \div 2
         IN  IF f >= Log10Tab[mid + 1] THEN Segment(f, mid, hi) ELSE Segment(f, lo, mid)

\* Math.pow(10, y / Q), in units of 1/Q: the inverse interpolation.
MathPow10(y) ==
    LET e  == y \div Log10Of2
        f  == y - e * Log10Of2
        i  == Segment(f, 0, 32)
        lo == Log10Tab[i + 1]
        hi == Log10Tab[i + 2]
        m  == Q + i * TabStep + ((f - lo) * TabStep) \div (hi - lo)
    IN  IF e >= 0 THEN m * (2^e) ELSE m \div (2^(-e))

\* The square of a length r / Q, in whole units (r >= 0): with r = ri + rf / Q
\* it is ri^2 + 2 * ri * rf / Q + (rf / Q)^2.
Square(r) ==
    LET ri == r \div Q
        rf == r % Q
    IN  ri * ri + (ri * (rf \div 2)) \div (2^18) + ((rf \div (2^10)) * (rf \div (2^10))) \div Q

-----------------------------------------------------------------------------
(* Program constants                                                        *)

scale == 40

width == 800

height == 600

margin == 80

radioRadius == 10

deviceRadius == 12

Point(px, py) == [x |-> px, y |-> py]

\* a / b for b # 0, rounded down
Div(a, b) == IF b < 0 THEN (-a) \div (-b) ELSE a \div b

\* a / b rounded to the nearest whole number (b > 0)
Round(a, b) == (2 * a + b) \div (2 * b)

\* 1000 * cos and 1000 * sin of (i * 2 * PI / k) - PI / 2, i = 0..k-1
Cos1000(k) ==
    IF k = 5 THEN << 0, 951, 588, -588, -951 >>
    ELSE << 0, 866, 866, 0, -866, -866 >>

Sin1000(k) ==
    IF k = 5 THEN << -1000, -309, 809, 809, -309 >>
    ELSE << -1000, -500, 500, 1000, 500, -500 >>

\* initializeRadios: the radios laid out for the count n (whole pixels)
initializeRadios(n) ==
    LET w == width - 2 * margin
        h == height - 2 * margin
        centerX == width \div 2
        centerY == height \div 2
        radius  == Min(w, h) \div 2
    IN  IF n = 3 THEN
            << Point(width \div 2, margin),
               Point(margin, height - margin),
               Point(width - margin, height - margin) >>
        ELSE IF n = 4 THEN
            << Point(margin, margin),
               Point(width - margin, margin),
               Point(width - margin, height - margin),
               Point(margin, height - margin) >>
        ELSE IF n = 5 \/ n = 6 THEN
            [i \in 1..n |->
                Point(centerX + Round(radius * Cos1000(n)[i], 1000),
                      centerY + Round(radius * Sin1000(n)[i], 1000))]
        ELSE << >>

-----------------------------------------------------------------------------
(* RSSI model                                                               *)

\* calculateTrueDistance: Euclidean distance in metres (units of 1/Q)
calculateTrueDistance(x1, y1, x2, y2) ==
    LET dx == x2 - x1
        dy == y2 - y1
    IN  MathSqrt(dx * dx + dy * dy) \div scale

\* gaussianRandom: mean + stdDev * z0, where z0 (units of 1/Q) is the value
\* sqrt(-2 ln u1) * cos(2 PI u2) of the two Math.random() draws.
gaussianRandom(mean, stdDev, z0) == mean + stdDev * z0

\* calculateRSSI with the path loss added instead of subtracted
calculateRSSI_Rising(distanceMeters, z0) ==
    LET d     == IF distanceMeters < Q \div 10 THEN Q \div 10 ELSE distanceMeters
        base  == txPower * Q + pathLossExponent * MathLog10(d)
        rssi  == IF enableNoise
                 THEN base + gaussianRandom(0, noiseStdDev, z0)
                 ELSE base
    IN  Max(-120 * Q, Min(-30 * Q, rssi))

\* calculateRSSI with the distance floor at 0.01 m instead of 0.1 m
calculateRSSI_FloorAtCentimetre(distanceMeters, z0) ==
    LET d     == IF distanceMeters < Q \div 100 THEN Q \div 100 ELSE distanceMeters
        base  == txPower * Q - pathLossExponent * MathLog10(d)
        rssi  == IF enableNoise
                 THEN base + gaussianRandom(0, noiseStdDev, z0)
                 ELSE base
    IN  Max(-120 * Q, Min(-30 * Q, rssi))

\* calculateRSSI: signal strength (units of 1/Q dBm) at distanceMeters; z0 is
\* the Box-Muller sample drawn when noise is enabled.
calculateRSSI(distanceMeters, z0) ==
    LET d     == IF distanceMeters < Q \div 10 THEN Q \div 10 ELSE distanceMeters
        base  == txPower * Q - pathLossExponent * MathLog10(d)
        rssi  == IF enableNoise
                 THEN base + gaussianRandom(0, noiseStdDev, z0)
                 ELSE base
    IN  Max(-120 * Q, Min(-30 * Q, rssi))

\* estimateDistanceFromRSSI with rssi - txPower in the exponent
estimateDistanceFromRSSI_SwappedDifference(rssi) ==
    LET exponent == (rssi - txPower * Q) \div pathLossExponent
    IN  MathPow10(exponent)

\* estimateDistanceFromRSSI with the default exponent 2.7 instead of the
\* exponent of the slider
estimateDistanceFromRSSI_DefaultExponent(rssi) ==
    LET exponent == (txPower * Q - rssi) \div 27
    IN  MathPow10(exponent)

\* estimateDistanceFromRSSI: 10^((txPower - rssi) / (10 n)), metres
estimateDistanceFromRSSI(rssi) ==
    LET exponent == (txPower * Q - rssi) \div pathLossExponent
    IN  MathPow10(exponent)

-----------------------------------------------------------------------------
(* Trilateration                                                            *)

\* showStatusMessage / hideStatusMessage: the #statusMessage element
\* the status element of the page before any message was shown
StatusElement == [show |-> FALSE, text |-> << >>, type |-> ""]

showStatusMessage(message, type) == [show |-> TRUE, text |-> message, type |-> type]

hideStatusMessage(el) == [el EXCEPT !.show = FALSE]

\* trilaterate with the radii left in metres
trilaterate_RadiiInMetres(m1, m2, m3) ==
    LET r1 == m1.estimatedDistance
        r2 == m2.estimatedDistance
        r3 == m3.estimatedDistance
        x1 == radios[m1.radio].x
        y1 == radios[m1.radio].y
        x2 == radios[m2.radio].x
        y2 == radios[m2.radio].y
        x3 == radios[m3.radio].x
        y3 == radios[m3.radio].y
        A  == 2 * (x2 - x1)
        B  == 2 * (y2 - y1)
        C  == Square(r1) - Square(r2) - x1 * x1 + x2 * x2 - y1 * y1 + y2 * y2
        D  == 2 * (x3 - x2)
        E  == 2 * (y3 - y2)
        F  == Square(r2) - Square(r3) - x2 * x2 + x3 * x3 - y2 * y2 + y3 * y3
        denominator == A * E - B * D
    IN  IF Abs(denominator) * 1000 < 1 THEN NULL
        ELSE Point(Div(C * E - F * B, denominator), Div(A * F - D * C, denominator))

\* trilaterate with the denominator tested without Math.abs
trilaterate_NoAbs(m1, m2, m3) ==
    LET r1 == m1.estimatedDistance * scale
        r2 == m2.estimatedDistance * scale
        r3 == m3.estimatedDistance * scale
        x1 == radios[m1.radio].x
        y1 == radios[m1.radio].y
        x2 == radios[m2.radio].x
        y2 == radios[m2.radio].y
        x3 == radios[m3.radio].x
        y3 == radios[m3.radio].y
        A  == 2 * (x2 - x1)
        B  == 2 * (y2 - y1)
        C  == Square(r1) - Square(r2) - x1 * x1 + x2 * x2 - y1 * y1 + y2 * y2
        D  == 2 * (x3 - x2)
        E  == 2 * (y3 - y2)
        F  == Square(r2) - Square(r3) - x2 * x2 + x3 * x3 - y2 * y2 + y3 * y3
        denominator == A * E - B * D
    IN  IF denominator * 1000 < 1 THEN NULL
        ELSE Point(Div(C * E - F * B, denominator), Div(A * F - D * C, denominator))

\* The closed-form solution of performTrilateration on the measurements
\* m1, m2, m3: NULL when the denominator is below 0.001 in magnitude.
trilaterate(m1, m2, m3) ==
    LET r1 == m1.estimatedDistance * scale
        r2 == m2.estimatedDistance * scale
        r3 == m3.estimatedDistance * scale
        x1 == radios[m1.radio].x
        y1 == radios[m1.radio].y
        x2 == radios[m2.radio].x
        y2 == radios[m2.radio].y
        x3 == radios[m3.radio].x
        y3 == radios[m3.radio].y
        A  == 2 * (x2 - x1)
        B  == 2 * (y2 - y1)
        C  == Square(r1) - Square(r2) - x1 * x1 + x2 * x2 - y1 * y1 + y2 * y2
        D  == 2 * (x3 - x2)
        E  == 2 * (y3 - y2)
        F  == Square(r2) - Square(r3) - x2 * x2 + x3 * x3 - y2 * y2 + y3 * y3
        denominator == A * E - B * D
    IN  IF Abs(denominator) * 1000 < 1 THEN NULL
        ELSE Point(Div(C * E - F * B, denominator), Div(A * F - D * C, denominator))

\* measure with the radios at exactly minRSSI left out
measure_Strict(zs) ==
    LET n       == Len(radios)
        dist    == [i \in 1..n |->
                      calculateTrueDistance(radios[i].x, radios[i].y, device.x, device.y)]
        rssi    == [i \in 1..n |-> calculateRSSI(dist[i], zs[i])]
        passing == SelectSeq([i \in 1..n |-> i], LAMBDA i : rssi[i] > minRSSI * Q)
    IN  [k \in 1..Len(passing) |->
            [radio             |-> passing[k],
             rssi              |-> rssi[passing[k]],
             trueDistance      |-> dist[passing[k]],
             estimatedDistance |-> estimateDistanceFromRSSI(rssi[passing[k]])]]

\* The measurement list of performTrilateration: one record per radio whose
\* rssi is >= minRSSI, in the order of this.radios; zs[i] is the noise sample
\* of radio i.  The field radio is the index of the radio in this.radios.
measure(zs) ==
    LET n       == Len(radios)
        dist    == [i \in 1..n |->
                      calculateTrueDistance(radios[i].x, radios[i].y, device.x, device.y)]
        rssi    == [i \in 1..n |-> calculateRSSI(dist[i], zs[i])]
        passing == SelectSeq([i \in 1..n |-> i], LAMBDA i : rssi[i] >= minRSSI * Q)
    IN  [k \in 1..Len(passing) |->
            [radio             |-> passing[k],
             rssi              |-> rssi[passing[k]],
             trueDistance      |-> dist[passing[k]],
             estimatedDistance |-> estimateDistanceFromRSSI(rssi[passing[k]])]]

\* performTrilateration that keeps the earlier estimate when fewer than
\* three radios pass
performTrilateration_KeepEstimate(zs, el) ==
    LET ms == measure(zs)
    IN  IF Len(ms) < 3 THEN
            [measurements      |-> ms,
             estimatedPosition |-> estimatedPosition,
             statusMessage     |-> showStatusMessage(
                                       <<"Insufficient radios (need >=3 with RSSI >= ",
                                         minRSSI, " dBm)">>, "warning")]
        ELSE LET pos == trilaterate(ms[1], ms[2], ms[3])
             IN  IF pos = NULL THEN
                     [measurements      |-> ms,
                      estimatedPosition |-> NULL,
                      statusMessage     |-> showStatusMessage(
                                                <<"Radios are collinear - cannot trilaterate">>,
                                                "warning")]
                 ELSE
                     [measurements      |-> ms,
                      estimatedPosition |-> pos,
                      statusMessage     |-> hideStatusMessage(el)]

\* performTrilateration that leaves the status element as it is on success
performTrilateration_NoHide(zs, el) ==
    LET ms == measure(zs)
    IN  IF Len(ms) < 3 THEN
            [measurements      |-> ms,
             estimatedPosition |-> NULL,
             statusMessage     |-> showStatusMessage(
                                       <<"Insufficient radios (need >=3 with RSSI >= ",
                                         minRSSI, " dBm)">>, "warning")]
        ELSE LET pos == trilaterate(ms[1], ms[2], ms[3])
             IN  IF pos = NULL THEN
                     [measurements      |-> ms,
                      estimatedPosition |-> NULL,
                      statusMessage     |-> showStatusMessage(
                                                <<"Radios are collinear - cannot trilaterate">>,
                                                "warning")]
                 ELSE
                     [measurements      |-> ms,
                      estimatedPosition |-> pos,
                      statusMessage     |-> el]

\* performTrilateration that returns early while a message is shown
performTrilateration_WhileHidden(zs, el) ==
    LET ms == measure(zs)
    IN  IF el.show THEN
            [measurements      |-> ms,
             estimatedPosition |-> NULL,
             statusMessage     |-> el]
        ELSE IF Len(ms) < 3 THEN
            [measurements      |-> ms,
             estimatedPosition |-> NULL,
             statusMessage     |-> showStatusMessage(
                                       <<"Insufficient radios (need >=3 with RSSI >= ",
                                         minRSSI, " dBm)">>, "warning")]
        ELSE LET pos == trilaterate(ms[1], ms[2], ms[3])
             IN  IF pos = NULL THEN
                     [measurements      |-> ms,
                      estimatedPosition |-> NULL,
                      statusMessage     |-> showStatusMessage(
                                                <<"Radios are collinear - cannot trilaterate">>,
                                                "warning")]
                 ELSE
                     [measurements      |-> ms,
                      estimatedPosition |-> pos,
                      statusMessage     |-> hideStatusMessage(el)]

\* performTrilateration on the last three measurements of the list
performTrilateration_LastThree(zs, el) ==
    LET ms == measure(zs)
        n  == Len(ms)
    IN  IF n < 3 THEN
            [measurements      |-> ms,
             estimatedPosition |-> NULL,
             statusMessage     |-> showStatusMessage(
                                       <<"Insufficient radios (need >=3 with RSSI >= ",
                                         minRSSI, " dBm)">>, "warning")]
        ELSE LET pos == trilaterate(ms[n - 2], ms[n - 1], ms[n])
             IN  IF pos = NULL THEN
                     [measurements      |-> ms,
                      estimatedPosition |-> NULL,
                      statusMessage     |-> showStatusMessage(
                                                <<"Radios are collinear - cannot trilaterate">>,
                                                "warning")]
                 ELSE
                     [measurements      |-> ms,
                      estimatedPosition |-> pos,
                      statusMessage     |-> hideStatusMessage(el)]

\* performTrilateration: the returned list, this.estimatedPosition and the
\* status element after the call; el is the status element before it.
performTrilateration(zs, el) ==
    LET ms == measure(zs)
    IN  IF Len(ms) < 3 THEN
            [measurements      |-> ms,
             estimatedPosition |-> NULL,
             statusMessage     |-> showStatusMessage(
                                       <<"Insufficient radios (need >=3 with RSSI >= ",
                                         minRSSI, " dBm)">>, "warning")]
        ELSE LET pos == trilaterate(ms[1], ms[2], ms[3])
             IN  IF pos = NULL THEN
                     [measurements      |-> ms,
                      estimatedPosition |-> NULL,
                      statusMessage     |-> showStatusMessage(
                                                <<"Radios are collinear - cannot trilaterate">>,
                                                "warning")]
                 ELSE
                     [measurements      |-> ms,
                      estimatedPosition |-> pos,
                      statusMessage     |-> hideStatusMessage(el)]

-----------------------------------------------------------------------------
(* Wall attenuation prototype                                               *)

\* WALL_MATERIALS: attenuation in dB
WALL_MATERIALS ==
    [drywall |-> 3, concrete |-> 10, brick |-> 8, glass |-> 2, metal |-> 20,
     door_wood |-> 4, door_metal |-> 12]

\* the value undefined and the number NaN: two integers that no computation
\* of the model yields (every number of the model lies within -2^29 .. 2^29)
UNDEFINED == -(2^30) - 1
NaN == -(2^30)

\* the properties that the object WALL_MATERIALS inherits from Object.prototype:
\* WALL_MATERIALS[name] is a function or an object for these names, which is
\* truthy and has no property attenuation
ObjectPrototype ==
    {"constructor", "toString", "toLocaleString", "valueOf", "hasOwnProperty",
     "isPrototypeOf", "propertyIsEnumerable", "__proto__"}

\* new Wall(start, end, material): a material for which WALL_MATERIALS has
\* no value gets the properties of drywall
Wall(start, end, material) ==
    [start       |-> Point(start.x, start.y),
     end         |-> Point(end.x, end.y),
     material    |-> material,
     attenuation |-> IF material \in DOMAIN WALL_MATERIALS
                     THEN WALL_MATERIALS[material]
                     ELSE IF material \in ObjectPrototype
                          THEN UNDEFINED
                          ELSE WALL_MATERIALS.drywall]

\* the quotient a / b of integers 0 <= a, 0 < b below 2^21, in units of 1/Q
Quotient(a, b) ==
    ((a * (2^10)) \div b) * (2^10) + (((a * (2^10)) % b) * (2^10)) \div b

\* the product of a >= 0 and 0 <= b < 2 Q, both in units of 1/Q, rounded
\* down (by less than three units)
Product(a, b) ==
    LET ah == (a % Q) \div (2^10)
        al == (a % Q) % (2^10)
        bh == b \div (2^10)
        bl == b % (2^10)
    IN  (a \div Q) * b + ah * bh + (ah * bl + al * bh) \div (2^10)

\* Math.sqrt of dx^2 + dy^2 for dx, dy in units of 1/Q, in units of 1/Q
Hypot(dx, dy) ==
    LET ax == Abs(dx) \div (2^15)
        ay == Abs(dy) \div (2^15)
        N  == ax * ax + ay * ay
    IN  IF N = 0 THEN 0 ELSE NewtonSqrt(N, 2^16) * (2^15)

\* lineLineIntersection with t and u strictly between 0 and 1
lineLineIntersection_Strict(p1, p2, p3, p4) ==
    LET x1 == p1.x  y1 == p1.y
        x2 == p2.x  y2 == p2.y
        x3 == p3.x  y3 == p3.y
        x4 == p4.x  y4 == p4.y
        denom == (x1 - x2) * (y3 - y4) - (y1 - y2) * (x3 - x4)
        tNum  == (x1 - x3) * (y3 - y4) - (y1 - y3) * (x3 - x4)
        uNum  == -((x1 - x2) * (y1 - y3) - (y1 - y2) * (x1 - x3))
        sgn   == IF denom < 0 THEN -1 ELSE 1
        InUnit(num) == 0 < sgn * num /\ sgn * num < sgn * denom
        t == Quotient(sgn * tNum, sgn * denom)
        u == Quotient(sgn * uNum, sgn * denom)
    IN  IF denom = 0 THEN NULL
        ELSE IF InUnit(tNum) /\ InUnit(uNum)
             THEN [x |-> x1 * Q + t * (x2 - x1),
                   y |-> y1 * Q + t * (y2 - y1),
                   t |-> t,
                   u |-> u]
             ELSE NULL

\* lineLineIntersection: NULL when the lines are parallel or the point lies
\* outside one of the segments.  The coordinates are whole pixels, so the
\* denominator is an integer and |denom| < 1e-10 means denom = 0; t and u
\* are compared with 0 and 1 exactly.
lineLineIntersection(p1, p2, p3, p4) ==
    LET x1 == p1.x  y1 == p1.y
        x2 == p2.x  y2 == p2.y
        x3 == p3.x  y3 == p3.y
        x4 == p4.x  y4 == p4.y
        denom == (x1 - x2) * (y3 - y4) - (y1 - y2) * (x3 - x4)
        tNum  == (x1 - x3) * (y3 - y4) - (y1 - y3) * (x3 - x4)
        uNum  == -((x1 - x2) * (y1 - y3) - (y1 - y2) * (x1 - x3))
        sgn   == IF denom < 0 THEN -1 ELSE 1
        InUnit(num) == 0 <= sgn * num /\ sgn * num <= sgn * denom
        t == Quotient(sgn * tNum, sgn * denom)
        u == Quotient(sgn * uNum, sgn * denom)
    IN  IF denom = 0 THEN NULL
        ELSE IF InUnit(tNum) /\ InUnit(uNum)
             THEN [x |-> x1 * Q + t * (x2 - x1),
                   y |-> y1 * Q + t * (y2 - y1),
                   t |-> t,
                   u |-> u]
             ELSE NULL

\* Array.prototype.sort with the comparator a.distance - b.distance (stable)
RECURSIVE SortByDistance(_)
SortByDistance(list) ==
    IF Len(list) <= 1 THEN list
    ELSE LET last   == list[Len(list)]
             sorted == SortByDistance(SubSeq(list, 1, Len(list) - 1))
             before == SelectSeq(sorted, LAMBDA e : e.distance <= last.distance)
             after  == SelectSeq(sorted, LAMBDA e : e.distance > last.distance)
         IN  before \o << last >> \o after

\* findWallIntersections without the final sort
findWallIntersections_Unsorted(transmitter, receiver, walls) ==
    LET hit(k) == lineLineIntersection(transmitter, receiver,
                                       walls[k].start, walls[k].end)
        hits   == SelectSeq([k \in 1..Len(walls) |-> k], LAMBDA k : hit(k) # NULL)
    IN  [j \in 1..Len(hits) |->
            [wall     |-> walls[hits[j]],
             point    |-> Point(hit(hits[j]).x, hit(hits[j]).y),
             distance |-> Hypot(hit(hits[j]).x - transmitter.x * Q,
                                hit(hits[j]).y - transmitter.y * Q),
             t        |-> hit(hits[j]).t]]

\* findWallIntersections: the crossings of the segment transmitter-receiver
\* with the walls, nearest to the transmitter first
findWallIntersections(transmitter, receiver, walls) ==
    LET hit(k) == lineLineIntersection(transmitter, receiver,
                                       walls[k].start, walls[k].end)
        hits   == SelectSeq([k \in 1..Len(walls) |-> k], LAMBDA k : hit(k) # NULL)
    IN  SortByDistance(
            [j \in 1..Len(hits) |->
                [wall     |-> walls[hits[j]],
                 point    |-> Point(hit(hits[j]).x, hit(hits[j]).y),
                 distance |-> Hypot(hit(hits[j]).x - transmitter.x * Q,
                                    hit(hits[j]).y - transmitter.y * Q),
                 t        |-> hit(hits[j]).t]])

\* a * b for a, b in units of 1/Q, with the sign of the result
SignedProduct(a, b) ==
    IF (a < 0) = (b < 0) THEN Product(Abs(a), Abs(b)) ELSE -Product(Abs(a), Abs(b))

\* dx / Math.sqrt(dx * dx + dy * dy) in units of 1/Q for whole dx, dy, rounded
\* toward zero (by less than six units): with whole the whole part of
\* 32 sqrt(n) and rest = 1024 n - whole^2, the length is
\* whole * sqrt(1 + rest / whole^2) / 32 <= whole * (1 + rest / (2 whole^2)) / 32.
Normalised(dx, dy) ==
    LET n     == dx * dx + dy * dy
        whole == NewtonSqrt(n * (2^10), 2^15)
        rest  == n * (2^10) - whole * whole
        first == Quotient(Abs(dx) * 32, whole)
        corr  == Quotient(rest, 2 * whole) \div whole
        mag   == IF rest = 0 THEN first
                 ELSE Max(0, first - Product(first, corr) - 3)
    IN  IF dx < 0 THEN -mag ELSE mag

\* calculatePenetrationAngle: 0.5 + 0.5 * |cos| of the angle between the
\* signal and the normal of the wall, in units of 1/Q; NaN (0 / 0) for a wall
\* or a direction of length zero
calculatePenetrationAngle(signalDirection, wall) ==
    LET wallDx == wall.end.x - wall.start.x
        wallDy == wall.end.y - wall.start.y
        wallTangentX == Normalised(wallDx, wallDy)
        wallTangentY == Normalised(wallDy, wallDx)
        wallNormalX  == -wallTangentY
        wallNormalY  == wallTangentX
        sigDirX == Normalised(signalDirection.x, signalDirection.y)
        sigDirY == Normalised(signalDirection.y, signalDirection.x)
        dotProduct == Abs(SignedProduct(sigDirX, wallNormalX)
                          + SignedProduct(sigDirY, wallNormalY))
    IN  IF (wallDx = 0 /\ wallDy = 0)
           \/ (signalDirection.x = 0 /\ signalDirection.y = 0)
        THEN NaN
        ELSE Q \div 2 + dotProduct \div 2

\* the loop with the cumulative factor divided by 1.1 instead of multiplied
RECURSIVE Attenuate_Damped(_, _, _, _, _)
Attenuate_Damped(params, intersections, i, totalAttenuation, cumulativeFactor) ==
    IF i > Len(intersections) THEN totalAttenuation
    ELSE IF intersections[i].wall.attenuation = UNDEFINED
         THEN NaN
    ELSE LET dx == params.receiver.x - params.transmitter.x
             dy == params.receiver.y - params.transmitter.y
             attenuation == intersections[i].wall.attenuation * Q
             wallLoss == IF params.enableAngleEffect
                         THEN Product(attenuation,
                                      calculatePenetrationAngle(Point(dx, dy),
                                                                intersections[i].wall))
                         ELSE attenuation
             factor == IF params.enableCumulativeEffect /\ i > 1
                       THEN (cumulativeFactor * 10) \div 11
                       ELSE cumulativeFactor
         IN  Attenuate_Damped(params, intersections, i + 1,
                              totalAttenuation + Product(wallLoss, factor), factor)

\* the loop with the factor 1.1 applied to every wall, whatever the toggle
RECURSIVE Attenuate_AlwaysCompound(_, _, _, _, _)
Attenuate_AlwaysCompound(params, intersections, i, totalAttenuation, cumulativeFactor) ==
    IF i > Len(intersections) THEN totalAttenuation
    ELSE IF intersections[i].wall.attenuation = UNDEFINED
         THEN NaN
    ELSE LET dx == params.receiver.x - params.transmitter.x
             dy == params.receiver.y - params.transmitter.y
             attenuation == intersections[i].wall.attenuation * Q
             wallLoss == IF params.enableAngleEffect
                         THEN Product(attenuation,
                                      calculatePenetrationAngle(Point(dx, dy),
                                                                intersections[i].wall))
                         ELSE attenuation
             factor == (cumulativeFactor * 11) \div 10
         IN  Attenuate_AlwaysCompound(params, intersections, i + 1,
                                      totalAttenuation + Product(wallLoss, factor), factor)

\* the loop whose running factor is multiplied by 1.1^i at wall i, the
\* per-index power applied on top of the running product
RECURSIVE Attenuate_CompoundTwice(_, _, _, _, _)
Attenuate_CompoundTwice(params, intersections, i, totalAttenuation, cumulativeFactor) ==
    IF i > Len(intersections) THEN totalAttenuation
    ELSE IF intersections[i].wall.attenuation = UNDEFINED
         THEN NaN
    ELSE LET dx == params.receiver.x - params.transmitter.x
             dy == params.receiver.y - params.transmitter.y
             attenuation == intersections[i].wall.attenuation * Q
             wallLoss == IF params.enableAngleEffect
                         THEN Product(attenuation,
                                      calculatePenetrationAngle(Point(dx, dy),
                                                                intersections[i].wall))
                         ELSE attenuation
             factor == IF params.enableCumulativeEffect /\ i > 1
                       THEN (cumulativeFactor * (11 ^ (i - 1))) \div (10 ^ (i - 1))
                       ELSE cumulativeFactor
         IN  Attenuate_CompoundTwice(params, intersections, i + 1,
                                     totalAttenuation + Product(wallLoss, factor), factor)

RECURSIVE Attenuate(_, _, _, _, _)
Attenuate(params, intersections, i, totalAttenuation, cumulativeFactor) ==
    IF i > Len(intersections) THEN totalAttenuation
    ELSE IF intersections[i].wall.attenuation = UNDEFINED
         THEN NaN    \* undefined * factor, and NaN from then on
    ELSE LET dx == params.receiver.x - params.transmitter.x
             dy == params.receiver.y - params.transmitter.y
             attenuation == intersections[i].wall.attenuation * Q
             wallLoss == IF params.enableAngleEffect
                         THEN Product(attenuation,
                                      calculatePenetrationAngle(Point(dx, dy),
                                                                intersections[i].wall))
                         ELSE attenuation
             factor == IF params.enableCumulativeEffect /\ i > 1
                       THEN (cumulativeFactor * 11) \div 10
                       ELSE cumulativeFactor
         IN  Attenuate(params, intersections, i + 1,
                       totalAttenuation + Product(wallLoss, factor), factor)

\* Math.pow(1.1, i) in units of 1/Q, for i up to 6
MathPow11(i) == Quotient(11 ^ i, 10 ^ i)

\* the wall loop as the guide writes it for the application: the loss of
\* the wall at index i - 1 is multiplied by Math.pow(1.1, i - 1)
RECURSIVE AttenuatePerIndex(_, _, _, _)
AttenuatePerIndex(params, intersections, i, totalAttenuation) ==
    IF i > Len(intersections) THEN totalAttenuation
    ELSE IF intersections[i].wall.attenuation = UNDEFINED
         THEN NaN
    ELSE LET dx == params.receiver.x - params.transmitter.x
             dy == params.receiver.y - params.transmitter.y
             attenuation == intersections[i].wall.attenuation * Q
             angled   == IF params.enableAngleEffect
                         THEN Product(attenuation,
                                      calculatePenetrationAngle(Point(dx, dy),
                                                                intersections[i].wall))
                         ELSE attenuation
             wallLoss == IF params.enableCumulativeEffect /\ i > 1
                         THEN Product(angled, MathPow11(i - 1))
                         ELSE angled
         IN  AttenuatePerIndex(params, intersections, i + 1, totalAttenuation + wallLoss)

\* calculateRSSIWithWalls: params.pathLossExponent holds tenths
calculateRSSIWithWalls(params) ==
    LET dx == params.receiver.x - params.transmitter.x
        dy == params.receiver.y - params.transmitter.y
        distancePixels == MathSqrt(dx * dx + dy * dy)
        distanceMeters == distancePixels \div params.scale
        safeDistance   == Max(Q \div 10, distanceMeters)
        baseRSSI == params.txPower * Q - params.pathLossExponent * MathLog10(safeDistance)
        intersections == findWallIntersections(params.transmitter, params.receiver,
                                               params.walls)
        totalAttenuation == Attenuate(params, intersections, 1, 0, Q)
        rssi == IF totalAttenuation # NaN
                THEN Max(-120 * Q, Min(-30 * Q, baseRSSI - totalAttenuation))
                ELSE NaN    \* Math.min and Math.max return NaN for NaN
    IN  [rssi             |-> rssi,
         baseRSSI         |-> baseRSSI,
         totalAttenuation |-> totalAttenuation,
         wallCount        |-> Len(intersections),
         intersections    |-> intersections,
         distanceMeters   |-> safeDistance]

-----------------------------------------------------------------------------
(* Rendering and interaction                                                *)

\* A reference to a radio object or to the device.  gen tells which array of
\* radios the object belongs to; ox, oy hold the position of a radio object
\* that this.radios no longer contains (0 while it is in this.radios).
RadioRef(i) == [type |-> "radio", id |-> i, gen |-> radiosGen, ox |-> 0, oy |-> 0]

DeviceRef == [type |-> "device", id |-> 0, gen |-> 0, ox |-> 0, oy |-> 0]

IsLive(ref) == ref.type = "device" \/ ref.gen = radiosGen

\* the current position of the object a reference points to
PositionOf(ref) ==
    IF ref.type = "device" THEN Point(device.x, device.y)
    ELSE IF ref.gen = radiosGen THEN Point(radios[ref.id].x, radios[ref.id].y)
    ELSE Point(ref.ox, ref.oy)

\* updateRadios, updateDevice: one circle mesh per radio, then the device's
Meshes ==
    [i \in 1..Len(radios) |->
        [ref |-> RadioRef(i), x |-> radios[i].x, y |-> radios[i].y, radius |-> radioRadius]]
    \o << [ref |-> DeviceRef, x |-> device.x, y |-> device.y, radius |-> deviceRadius] >>

\* the references this.radios leaves behind when initializeRadios replaces it
Detach(ref) ==
    IF ref # NULL /\ ref.type = "radio" /\ ref.gen = radiosGen
    THEN [ref EXCEPT !.ox = radios[ref.id].x, !.oy = radios[ref.id].y]
    ELSE ref

DetachAll(meshes) == [k \in 1..Len(meshes) |-> [meshes[k] EXCEPT !.ref = Detach(@)]]

-----------------------------------------------------------------------------
(* Bounds and the values user events are drawn from                         *)

MaxEdits == 3

TxPowerValues == {-59, -60}

PathLossValues == {27, 20}

MinRSSIValues == {-100, -60}

NoiseStdDevValues == {5, 2}

NumRadiosValues == {3, 4, 5, 6}

\* Box-Muller samples z0 (units of 1/Q): -0.5 and +0.5
ZSamples == {-(Q \div 2), Q \div 2}

\* canvas points of mouse events; a mousedown also happens on each mesh
MovePoints == {Point(400, 80), Point(80, 80), Point(795, 598), Point(240, 400)}

ClickPoints ==
    MovePoints \cup {Point(interactiveObjects[k].x + 3, interactiveObjects[k].y - 4) :
                        k \in 1..Len(interactiveObjects)}

\* the noise samples of one tick, one per radio: all radios draw the same
\* sample, or neighbours draw different ones
NoiseDraws ==
    IF enableNoise
    THEN {[i \in 1..Len(radios) |-> IF (i + k) % 2 = 0 THEN lo ELSE hi] :
             k \in 0..1, lo \in ZSamples, hi \in ZSamples}
    ELSE {[i \in 1..Len(radios) |-> 0]}

-----------------------------------------------------------------------------
(* The simulator                                                            *)

\* render whose tick also moves the device onto the estimate
Render_SnapsDevice ==
    \E zs \in NoiseDraws :
        LET r == performTrilateration(zs, statusMessage)
        IN  /\ measurements' = r.measurements
            /\ estimatedPosition' = r.estimatedPosition
            /\ statusMessage' = r.statusMessage
            /\ interactiveObjects' = Meshes
            /\ rendered' = TRUE
            /\ device' = IF r.estimatedPosition = NULL THEN device
                         ELSE [device EXCEPT !.x = width \div 2 + 1]
            /\ UNCHANGED <<radios, numRadios, txPower, pathLossExponent,
                           minRSSI, enableNoise, noiseStdDev, dragging, dragOffset,
                           radiosGen, edits, probe, kalmanVars>>

\* render (called by animate on every animation frame): performTrilateration,
\* then the meshes are rebuilt from the radios and the device.
Render ==
    \E zs \in NoiseDraws :
        LET r == performTrilateration(zs, statusMessage)
        IN  /\ measurements' = r.measurements
            /\ estimatedPosition' = r.estimatedPosition
            /\ statusMessage' = r.statusMessage
            /\ interactiveObjects' = Meshes
            /\ rendered' = TRUE
            /\ UNCHANGED <<radios, numRadios, device, txPower, pathLossExponent,
                           minRSSI, enableNoise, noiseStdDev, dragging, dragOffset,
                           radiosGen, edits, probe, kalmanVars>>

\* constructor and init(): the fields, initializeRadios, and the first render
\* Version 1.2 has no RSSI filter: the phase 1 fields are absent, and the
\* heatmap is off as the constructor leaves it
NoKalmanFilter ==
    /\ enableKalmanFilter = FALSE
    /\ kalmanR = 0
    /\ kalmanQ = 0
    /\ rssiKalmanFilters = << >>
    /\ enableHeatmap = FALSE
    /\ rawRSSI = << >>
    /\ frames = 0

Init ==
    /\ numRadios = 4
    /\ radiosGen = 0
    /\ radios = initializeRadios(4)
    /\ device = Point(width \div 2, height \div 2)
    /\ txPower = -59
    /\ pathLossExponent = 27
    /\ minRSSI = -100
    /\ enableNoise = FALSE
    /\ noiseStdDev = 5
    /\ dragging = NULL
    /\ dragOffset = Point(0, 0)
    /\ LET r == performTrilateration([i \in 1..4 |-> 0], StatusElement)
       IN  /\ measurements = r.measurements
           /\ estimatedPosition = r.estimatedPosition
           /\ statusMessage = r.statusMessage
    /\ interactiveObjects = Meshes
    /\ edits = 0
    /\ rendered = TRUE
    /\ probe = [op |-> "none", in |-> << >>, out |-> << >>]
    /\ NoKalmanFilter

Edit == edits < MaxEdits /\ edits' = edits + 1 /\ rendered' = FALSE

\* 'input' listener of #txPower
SetTxPower(v) ==
    /\ Edit
    /\ v # txPower
    /\ txPower' = v
    /\ UNCHANGED <<radios, numRadios, device, pathLossExponent, minRSSI, enableNoise,
                   noiseStdDev, estimatedPosition, statusMessage, measurements,
                   dragging, dragOffset, interactiveObjects, radiosGen, probe, kalmanVars>>

\* 'input' listener of #pathLossExponent
SetPathLossExponent(v) ==
    /\ Edit
    /\ v # pathLossExponent
    /\ pathLossExponent' = v
    /\ UNCHANGED <<radios, numRadios, device, txPower, minRSSI, enableNoise,
                   noiseStdDev, estimatedPosition, statusMessage, measurements,
                   dragging, dragOffset, interactiveObjects, radiosGen, probe, kalmanVars>>

\* 'input' listener of #minRSSI
SetMinRSSI(v) ==
    /\ Edit
    /\ v # minRSSI
    /\ minRSSI' = v
    /\ UNCHANGED <<radios, numRadios, device, txPower, pathLossExponent, enableNoise,
                   noiseStdDev, estimatedPosition, statusMessage, measurements,
                   dragging, dragOffset, interactiveObjects, radiosGen, probe, kalmanVars>>

\* 'change' listener of #enableNoise
SetEnableNoise ==
    /\ Edit
    /\ enableNoise' = ~enableNoise
    /\ UNCHANGED <<radios, numRadios, device, txPower, pathLossExponent, minRSSI,
                   noiseStdDev, estimatedPosition, statusMessage, measurements,
                   dragging, dragOffset, interactiveObjects, radiosGen, probe, kalmanVars>>

\* 'input' listener of #noiseLevel
SetNoiseLevel(v) ==
    /\ Edit
    /\ v # noiseStdDev
    /\ noiseStdDev' = v
    /\ UNCHANGED <<radios, numRadios, device, txPower, pathLossExponent, minRSSI,
                   enableNoise, estimatedPosition, statusMessage, measurements,
                   dragging, dragOffset, interactiveObjects, radiosGen, probe, kalmanVars>>

\* 'change' listener of #numRadios
SetNumRadios(n) ==
    /\ Edit
    /\ n # numRadios
    /\ numRadios' = n
    /\ radios' = initializeRadios(n)
    /\ radiosGen' = radiosGen + 1
    /\ dragging' = Detach(dragging)
    /\ interactiveObjects' = DetachAll(interactiveObjects)
    /\ UNCHANGED <<device, txPower, pathLossExponent, minRSSI, enableNoise,
                   noiseStdDev, estimatedPosition, statusMessage, measurements,
                   dragOffset, probe, kalmanVars>>

\* 'click' listener of #resetBtn
Reset ==
    /\ Edit
    /\ radios' = initializeRadios(numRadios)
    /\ radiosGen' = radiosGen + 1
    /\ dragging' = Detach(dragging)
    /\ interactiveObjects' = DetachAll(interactiveObjects)
    /\ device' = [device EXCEPT !.x = width \div 2, !.y = height \div 2]
    /\ UNCHANGED <<numRadios, txPower, pathLossExponent, minRSSI, enableNoise,
                   noiseStdDev, estimatedPosition, statusMessage, measurements,
                   dragOffset, probe, kalmanVars>>

\* the meshes the ray through canvas point p meets, in the raycaster's order
\* (all circles lie at the same depth, so the order of interactiveObjects)
Intersects(p) ==
    SelectSeq(interactiveObjects,
              LAMBDA m : (p.x - m.x) * (p.x - m.x) + (p.y - m.y) * (p.y - m.y)
                            <= m.radius * m.radius)

\* handleMouseDown at canvas point p
HandleMouseDown(p) ==
    LET intersects == Intersects(p)
    IN  IF Len(intersects) > 0
        THEN LET obj == intersects[1].ref
             IN  /\ Edit
                 /\ dragging' = obj
                 /\ dragOffset' = Point(PositionOf(obj).x - p.x, PositionOf(obj).y - p.y)
                 /\ UNCHANGED <<radios, numRadios, device, txPower, pathLossExponent,
                                minRSSI, enableNoise, noiseStdDev, estimatedPosition,
                                statusMessage, measurements, interactiveObjects,
                                radiosGen, probe, kalmanVars>>
        ELSE UNCHANGED vars

\* the dragged position without the clamp to the canvas
DragTarget_Unclamped(p) == Point(p.x + dragOffset.x, p.y + dragOffset.y)

\* the position handleMouseMove gives the dragged object for canvas point p
DragTarget(p) ==
    Point(Max(20, Min(width - 20, p.x + dragOffset.x)),
          Max(20, Min(height - 20, p.y + dragOffset.y)))

SameObject(a, b) == a.type = b.type /\ a.id = b.id /\ a.gen = b.gen

\* handleMouseMove at canvas point p
HandleMouseMove(p) ==
    IF dragging = NULL THEN UNCHANGED vars
    ELSE
        /\ Edit
        /\ IF dragging.type = "device" THEN
               /\ device' = [device EXCEPT !.x = DragTarget(p).x, !.y = DragTarget(p).y]
               /\ UNCHANGED <<radios, dragging, interactiveObjects>>
           ELSE IF dragging.gen = radiosGen THEN
               /\ radios' = [radios EXCEPT ![dragging.id] =
                                [@ EXCEPT !.x = DragTarget(p).x, !.y = DragTarget(p).y]]
               /\ UNCHANGED <<device, dragging, interactiveObjects>>
           ELSE
               \* a radio object that this.radios no longer holds
               /\ dragging' = [dragging EXCEPT !.ox = DragTarget(p).x,
                                               !.oy = DragTarget(p).y]
               /\ interactiveObjects' =
                      [k \in 1..Len(interactiveObjects) |->
                          IF SameObject(interactiveObjects[k].ref, dragging)
                          THEN [interactiveObjects[k] EXCEPT
                                    !.ref.ox = DragTarget(p).x,
                                    !.ref.oy = DragTarget(p).y]
                          ELSE interactiveObjects[k]]
               /\ UNCHANGED <<radios, device>>
        /\ UNCHANGED <<numRadios, txPower, pathLossExponent, minRSSI, enableNoise,
                       noiseStdDev, estimatedPosition, statusMessage, measurements,
                       dragOffset, radiosGen, probe, kalmanVars>>

\* handleMouseUp that lets go of a radio but not of the device
HandleMouseUp_KeepsDevice ==
    IF dragging = NULL THEN UNCHANGED vars
    ELSE
        /\ Edit
        /\ dragging' = IF dragging.type = "device" THEN dragging ELSE NULL
        /\ UNCHANGED <<radios, numRadios, device, txPower, pathLossExponent, minRSSI,
                       enableNoise, noiseStdDev, estimatedPosition, statusMessage,
                       measurements, dragOffset, interactiveObjects, radiosGen, probe, kalmanVars>>

\* handleMouseUp
HandleMouseUp ==
    IF dragging = NULL THEN UNCHANGED vars
    ELSE
        /\ Edit
        /\ dragging' = NULL
        /\ UNCHANGED <<radios, numRadios, device, txPower, pathLossExponent, minRSSI,
                       enableNoise, noiseStdDev, estimatedPosition, statusMessage,
                       measurements, dragOffset, interactiveObjects, radiosGen, probe, kalmanVars>>

MouseDown == \E p \in ClickPoints : HandleMouseDown(p)

MouseMove == \E p \in MovePoints : HandleMouseMove(p)

MouseUp == HandleMouseUp

MouseLeave == HandleMouseUp

TxPowerInput == \E v \in TxPowerValues : SetTxPower(v)

PathLossExponentInput == \E v \in PathLossValues : SetPathLossExponent(v)

MinRSSIInput == \E v \in MinRSSIValues : SetMinRSSI(v)

NoiseLevelInput == \E v \in NoiseStdDevValues : SetNoiseLevel(v)

NumRadiosChange == \E n \in NumRadiosValues : SetNumRadios(n)

Next ==
    \/ Render
    \/ MouseDown
    \/ MouseMove
    \/ MouseUp
    \/ MouseLeave
    \/ TxPowerInput
    \/ PathLossExponentInput
    \/ MinRSSIInput
    \/ SetEnableNoise
    \/ NoiseLevelInput
    \/ NumRadiosChange
    \/ Reset

Spec == Init /\ [][Next]_vars

-----------------------------------------------------------------------------
-----------------------------------------------------------------------------
(* The mouse, the radio count and the reset button: the events that move    *)
(* a radio or the device.  The pointer goes to the points of the other      *)
(* events and to the corners and edges of the canvas.                       *)

DragPoints ==
    MovePoints \cup {Point(0, 0), Point(2, 300), Point(width, height), Point(400, 1)}

DragMove == \E p \in DragPoints : HandleMouseMove(p)

NextDrag ==
    \/ Render
    \/ MouseDown
    \/ DragMove
    \/ MouseUp
    \/ MouseLeave
    \/ NumRadiosChange
    \/ Reset

SpecDrag == Init /\ [][NextDrag]_vars

(* performTrilateration on chosen placements.  The constructor is followed  *)
(* by drags and slider changes that leave the radios and the device at a    *)
(* placement below; from there the sliders change and frames are rendered.  *)

\* radio placements: the layouts of initializeRadios for 4 and 3 radios, the
\* triangle (0,0), (10,0), (0,10) metres and its translate by (1,1) metre,
\* three radios on a line with a fourth off it, three on a slanted line, a
\* thin triangle and a small triangle
TickLayouts ==
    { initializeRadios(4),
      initializeRadios(3),
      << Point(0, 0), Point(400, 0), Point(0, 400) >>,
      << Point(40, 40), Point(440, 40), Point(40, 440) >>,
      << Point(80, 80), Point(400, 80), Point(720, 80), Point(400, 520) >>,
      << Point(80, 80), Point(240, 200), Point(400, 320) >>,
      << Point(80, 80), Point(400, 80), Point(720, 88) >>,
      << Point(80, 80), Point(84, 80), Point(80, 84) >> }

\* receiver positions: the centre, (3,4) metres and its translate, on a
\* radio, one metre from a radio, and far from the radios
TickDevices ==
    { Point(width \div 2, height \div 2), Point(120, 160), Point(160, 200),
      Point(80, 80), Point(120, 80), Point(700, 560) }

InitTick ==
    /\ radios \in TickLayouts
    /\ numRadios = Len(radios)
    /\ radiosGen = 0
    /\ device \in TickDevices
    /\ txPower \in TxPowerValues
    /\ pathLossExponent \in PathLossValues
    /\ minRSSI = -100
    /\ enableNoise = FALSE
    /\ noiseStdDev = 5
    /\ dragging = NULL
    /\ dragOffset = Point(0, 0)
    /\ LET r == performTrilateration([i \in 1..Len(radios) |-> 0], StatusElement)
       IN  /\ measurements = r.measurements
           /\ estimatedPosition = r.estimatedPosition
           /\ statusMessage = r.statusMessage
    /\ interactiveObjects = Meshes
    /\ edits = 0
    /\ rendered = TRUE
    /\ probe = [op |-> "none", in |-> << >>, out |-> << >>]
    /\ NoKalmanFilter

NextTick ==
    \/ Render
    \/ MinRSSIInput
    \/ SetEnableNoise
    \/ NoiseLevelInput

SpecTick == InitTick /\ [][NextTick]_vars

-----------------------------------------------------------------------------
-----------------------------------------------------------------------------
(* A drag of a later radio.  The constructor is followed by drags that      *)
(* leave four or five radios at a placement below, by the noise checkbox    *)
(* and by a mousedown on a radio after the third; from there that radio is  *)
(* dragged, the detection threshold changes and frames are rendered.        *)

\* radio placements: three radios on a line with a fourth off it, and the
\* layouts of initializeRadios for 4 and 5 radios
AnchorLayouts ==
    { << Point(80, 80), Point(400, 80), Point(720, 80), Point(400, 520) >>,
      initializeRadios(4),
      initializeRadios(5) }

AnchorDevices == { Point(width \div 2, height \div 2), Point(240, 200) }

\* values of the #minRSSI slider: all radios of a layout pass, or the far
\* ones do not
AnchorMinRSSI == {-100, -85}

InitAnchors ==
    /\ radios \in AnchorLayouts
    /\ numRadios = Len(radios)
    /\ radiosGen = 0
    /\ device \in AnchorDevices
    /\ txPower = -59
    /\ pathLossExponent = 27
    /\ minRSSI = -100
    /\ enableNoise = TRUE
    /\ noiseStdDev = 5
    /\ dragging \in {RadioRef(k) : k \in 4..Len(radios)}
    /\ dragOffset = Point(0, 0)
    /\ LET r == performTrilateration([i \in 1..Len(radios) |-> 0], StatusElement)
       IN  /\ measurements = r.measurements
           /\ estimatedPosition = r.estimatedPosition
           /\ statusMessage = r.statusMessage
    /\ interactiveObjects = Meshes
    /\ edits = 0
    /\ rendered = FALSE
    /\ probe = [op |-> "none", in |-> << >>, out |-> << >>]
    /\ NoKalmanFilter

AnchorMinRSSIInput == \E v \in AnchorMinRSSI : SetMinRSSI(v)

NextAnchors ==
    \/ Render
    \/ MouseMove
    \/ AnchorMinRSSIInput

SpecAnchors == InitAnchors /\ [][NextAnchors]_vars

(* Frames and a record of one of them: the frame that was just rendered is  *)
(* recorded once in probe, with what it was rendered from, for comparison    *)
(* with the frames that follow.                                              *)

RecordFrame ==
    /\ probe.op = "none"
    /\ rendered
    /\ probe' = [op  |-> "performTrilateration",
                 in  |-> [radios           |-> radios,
                          device           |-> device,
                          txPower          |-> txPower,
                          pathLossExponent |-> pathLossExponent,
                          minRSSI          |-> minRSSI,
                          enableNoise      |-> enableNoise],
                 out |-> [measurements      |-> measurements,
                          estimatedPosition |-> estimatedPosition]]
    /\ UNCHANGED appVars

NextRepeat ==
    \/ Render
    \/ MinRSSIInput
    \/ SetEnableNoise
    \/ NoiseLevelInput
    \/ RecordFrame

\* the placements of the repeated frames: the polygons of four and of three
\* radios and three radios on a line, the receiver at the centre or near
\* the first radio
InitRepeat ==
    /\ InitTick
    /\ radios \in { initializeRadios(4), initializeRadios(3),
                     << Point(80, 80), Point(240, 200), Point(400, 320) >> }
    /\ device \in { Point(width \div 2, height \div 2), Point(120, 160) }

SpecRepeat == InitRepeat /\ [][NextRepeat]_vars

-----------------------------------------------------------------------------
(* Phase 1: a Kalman filter per radio on the RSSI stream.  The phase 1      *)
(* listings give the constructor fields, initializeRadios, calculateRSSI,   *)
(* the event listeners and updateHeatmap; the filter itself is the scalar   *)
(* recursive filter of section 4.3 (state transition and observation 1).    *)

\* this.kalmanR and this.kalmanQ of the constructor, in units of 1/Q
DefaultKalmanR == Q \div 100

DefaultKalmanQ == 3 * Q

\* positions of the R and Q sliders
KalmanRValues == {Q \div 100, Q \div 20}

KalmanQValues == {3 * Q, 5 * Q}

\* frames drawn in one exploration
MaxFrames == 2

\* side of a heatmap cell in pixels (the guide's resolution, coarsened)
HeatmapStep == 400

\* new KalmanFilter({R, Q}): no estimate and no covariance yet
KalmanFilter(R, Qn) == [R |-> R, Q |-> Qn, x |-> NaN, cov |-> NaN]

\* filter(z): the filter after the call; the value returned is its x.  The
\* first call takes z as the estimate; later calls predict (cov + R) and
\* correct with the gain predCov / (predCov + Q).
filter(f, z) ==
    IF f.x = NaN
    THEN [f EXCEPT !.x = z, !.cov = f.Q]
    ELSE LET predCov == f.cov + f.R
             K       == Quotient(predCov \div 16, (predCov + f.Q) \div 16)
         IN  [f EXCEPT !.x   = f.x + SignedProduct(z - f.x, K),
                       !.cov = predCov - Product(predCov, K)]

\* the R and Q listeners that keep each filter's estimate and covariance
ReinitializeFilters_KeepHistory(R, Qn) ==
    [i \in 1..Len(rssiKalmanFilters) |-> [rssiKalmanFilters[i] EXCEPT !.R = R, !.Q = Qn]]

\* this.radios.map(() => new KalmanFilter({R, Q})): one fresh filter per radio
ReinitializeFilters(R, Qn) == [i \in 1..Len(radios) |-> KalmanFilter(R, Qn)]

\* this.radios.findIndex(r => r.x === transmitter.x && r.y === transmitter.y),
\* counted from 1; 0 stands for -1
findIndex(transmitter) ==
    LET hits == {i \in 1..Len(radios) :
                    radios[i].x = transmitter.x /\ radios[i].y = transmitter.y}
    IN  IF hits = {} THEN 0 ELSE CHOOSE i \in hits : \A j \in hits : i <= j

\* calculateRSSI(distanceMeters, transmitter, receiver) of phase 1 with the
\* filters before the call: raw is the value handed to the filter, rssi the
\* value returned, filters the filters after the call.
calculateRSSIFiltered(distanceMeters, z0, transmitter, receiver, filters) ==
    LET d          == IF distanceMeters < Q \div 10 THEN Q \div 10 ELSE distanceMeters
        base       == txPower * Q - pathLossExponent * MathLog10(d)
        raw        == IF enableNoise
                      THEN base + gaussianRandom(0, noiseStdDev, z0)
                      ELSE base
        radioIndex == IF transmitter # NULL /\ receiver # NULL
                      THEN findIndex(transmitter) ELSE 0
        filtering  == /\ enableKalmanFilter
                      /\ radioIndex # 0
                      /\ radioIndex <= Len(filters)
        f          == filter(filters[radioIndex], raw)
        rssi       == IF filtering THEN f.x ELSE raw
    IN  [raw     |-> raw,
         rssi    |-> Max(-120 * Q, Min(-30 * Q, rssi)),
         filters |-> IF filtering THEN [filters EXCEPT ![radioIndex] = f] ELSE filters]

\* the loop of performTrilateration over this.radios from radio i on: the raw
\* and the returned value per radio, and the filters after the loop
RECURSIVE MeasureFiltered(_, _, _, _, _)
MeasureFiltered(i, zs, raw, rssi, filters) ==
    IF i > Len(radios) THEN [raw |-> raw, rssi |-> rssi, filters |-> filters]
    ELSE LET c == calculateRSSIFiltered(
                      calculateTrueDistance(radios[i].x, radios[i].y, device.x, device.y),
                      zs[i], radios[i], device, filters)
         IN  MeasureFiltered(i + 1, zs, Append(raw, c.raw), Append(rssi, c.rssi), c.filters)

\* the cells of the heatmap in the order of the two loops
HeatmapCells ==
    LET nx == (width + HeatmapStep - 1) \div HeatmapStep
        ny == (height + HeatmapStep - 1) \div HeatmapStep
    IN  [k \in 1..(nx * ny) |->
            Point(((k - 1) \div ny) * HeatmapStep, ((k - 1) % ny) * HeatmapStep)]

\* updateHeatmap from sample k on (cell by cell, radio by radio): the filters
\* after the loops; z0 is the noise sample of the frame's heatmap
RECURSIVE HeatmapFrom(_, _, _)
HeatmapFrom(k, z0, filters) ==
    LET n == Len(radios)
    IN  IF n = 0 \/ k > Len(HeatmapCells) * n THEN filters
        ELSE LET cell  == HeatmapCells[((k - 1) \div n) + 1]
                 radio == radios[((k - 1) % n) + 1]
                 c     == calculateRSSIFiltered(
                              calculateTrueDistance(radio.x, radio.y, cell.x, cell.y),
                              z0, radio, cell, filters)
             \* (the test holds always; it fixes the order of evaluation)
             IN  IF Len(c.filters) = Len(filters)
                 THEN HeatmapFrom(k + 1, z0, c.filters)
                 ELSE filters

updateHeatmap(z0, filters) == HeatmapFrom(1, z0, filters)

\* the measurement list of a phase 1 frame from the values of its loop
FilteredMeasurements(m) ==
    LET n       == Len(radios)
        passing == SelectSeq([i \in 1..n |-> i], LAMBDA i : m.rssi[i] >= minRSSI * Q)
    IN  [k \in 1..Len(passing) |->
            [radio             |-> passing[k],
             rssi              |-> m.rssi[passing[k]],
             trueDistance      |-> calculateTrueDistance(radios[passing[k]].x,
                                       radios[passing[k]].y, device.x, device.y),
             estimatedDistance |-> estimateDistanceFromRSSI(m.rssi[passing[k]])]]

\* render of phase 1: performTrilateration on the filtered values, then
\* updateHeatmap when the heatmap is enabled, then the meshes.  The position
\* is taken from the first three measurements as in version 1.2.
KalmanRender ==
    /\ frames < MaxFrames
    /\ \E zs \in NoiseDraws, zh \in ZSamples :
        LET m   == MeasureFiltered(1, zs, << >>, << >>, rssiKalmanFilters)
            ms  == FilteredMeasurements(m)
            pos == IF Len(ms) < 3 THEN NULL ELSE trilaterate(ms[1], ms[2], ms[3])
        IN  /\ measurements' = ms
            /\ estimatedPosition' = pos
            /\ statusMessage' =
                  IF Len(ms) < 3
                  THEN showStatusMessage(<<"Insufficient radios (need >=3 with RSSI >= ",
                                           minRSSI, " dBm)">>, "warning")
                  ELSE IF pos = NULL
                  THEN showStatusMessage(<<"Radios are collinear - cannot trilaterate">>,
                                         "warning")
                  ELSE hideStatusMessage(statusMessage)
            /\ rssiKalmanFilters' =
                  IF enableHeatmap THEN updateHeatmap(zh, m.filters) ELSE m.filters
            /\ rawRSSI' = m.raw
    /\ frames' = frames + 1
    /\ interactiveObjects' = Meshes
    /\ rendered' = TRUE
    /\ UNCHANGED <<radios, numRadios, device, txPower, pathLossExponent, minRSSI,
                   enableNoise, noiseStdDev, dragging, dragOffset, radiosGen, edits,
                   probe, enableKalmanFilter, kalmanR, kalmanQ, enableHeatmap>>

\* what an event of phase 1 leaves alone besides the filter fields
KalmanEventFrame ==
    UNCHANGED <<radios, numRadios, device, txPower, pathLossExponent, minRSSI,
                enableNoise, noiseStdDev, estimatedPosition, statusMessage,
                measurements, dragging, dragOffset, interactiveObjects, radiosGen,
                probe, rawRSSI, frames>>

\* 'input' listener of the R slider: the filters are reinitialized
KalmanRInput ==
    \E v \in KalmanRValues :
        /\ Edit
        /\ v # kalmanR
        /\ kalmanR' = v
        /\ rssiKalmanFilters' = ReinitializeFilters(v, kalmanQ)
        /\ KalmanEventFrame
        /\ UNCHANGED <<enableKalmanFilter, kalmanQ, enableHeatmap>>

\* 'input' listener of the Q slider: the filters are reinitialized
KalmanQInput ==
    \E v \in KalmanQValues :
        /\ Edit
        /\ v # kalmanQ
        /\ kalmanQ' = v
        /\ rssiKalmanFilters' = ReinitializeFilters(kalmanR, v)
        /\ KalmanEventFrame
        /\ UNCHANGED <<enableKalmanFilter, kalmanR, enableHeatmap>>

\* 'change' listener of the Enable Kalman Filter checkbox
KalmanToggle ==
    /\ Edit
    /\ enableKalmanFilter' = ~enableKalmanFilter
    /\ KalmanEventFrame
    /\ UNCHANGED <<kalmanR, kalmanQ, rssiKalmanFilters, enableHeatmap>>

\* 'change' listener of the Enable RSSI Heatmap checkbox
HeatmapToggle ==
    /\ Edit
    /\ enableHeatmap' = ~enableHeatmap
    /\ KalmanEventFrame
    /\ UNCHANGED <<enableKalmanFilter, kalmanR, kalmanQ, rssiKalmanFilters>>

\* 'change' listener of #numRadios in phase 1: initializeRadios lays the
\* radios out again and creates their filters
KalmanNumRadiosChange ==
    \E n \in {3, 4} :
        /\ Edit
        /\ n # numRadios
        /\ numRadios' = n
        /\ radios' = initializeRadios(n)
        /\ radiosGen' = radiosGen + 1
        /\ dragging' = Detach(dragging)
        /\ interactiveObjects' = DetachAll(interactiveObjects)
        /\ rssiKalmanFilters' = [i \in 1..n |-> KalmanFilter(kalmanR, kalmanQ)]
        /\ UNCHANGED <<device, txPower, pathLossExponent, minRSSI, enableNoise,
                       noiseStdDev, estimatedPosition, statusMessage, measurements,
                       dragOffset, probe, enableKalmanFilter, kalmanR, kalmanQ,
                       enableHeatmap, rawRSSI, frames>>

\* 'click' listener of #resetBtn in phase 1
KalmanReset ==
    /\ Edit
    /\ radios' = initializeRadios(numRadios)
    /\ radiosGen' = radiosGen + 1
    /\ dragging' = Detach(dragging)
    /\ interactiveObjects' = DetachAll(interactiveObjects)
    /\ device' = [device EXCEPT !.x = width \div 2, !.y = height \div 2]
    /\ rssiKalmanFilters' = [i \in 1..numRadios |-> KalmanFilter(kalmanR, kalmanQ)]
    /\ UNCHANGED <<numRadios, txPower, pathLossExponent, minRSSI, enableNoise,
                   noiseStdDev, estimatedPosition, statusMessage, measurements,
                   dragOffset, probe, enableKalmanFilter, kalmanR, kalmanQ,
                   enableHeatmap, rawRSSI, frames>>

\* layouts of phase 1: the initial one, and one where radio 2 was dragged
\* onto radio 1
KalmanLayouts ==
    { initializeRadios(4),
      [initializeRadios(4) EXCEPT ![2] = initializeRadios(4)[1]] }

\* the simulator of phase 1 after construction and before its first frame
InitKalman ==
    /\ numRadios = 4
    /\ radios \in KalmanLayouts
    /\ radiosGen = 0
    /\ device = Point(width \div 2, height \div 2)
    /\ txPower = -59
    /\ pathLossExponent = 27
    /\ minRSSI = -100
    /\ enableNoise = TRUE
    /\ noiseStdDev = 5
    /\ estimatedPosition = NULL
    /\ statusMessage = StatusElement
    /\ measurements = << >>
    /\ dragging = NULL
    /\ dragOffset = Point(0, 0)
    /\ interactiveObjects = Meshes
    /\ edits = 0
    /\ rendered = FALSE
    /\ probe = [op |-> "none", in |-> << >>, out |-> << >>]
    /\ enableKalmanFilter = TRUE
    /\ kalmanR = DefaultKalmanR
    /\ kalmanQ = DefaultKalmanQ
    /\ rssiKalmanFilters =
          [i \in 1..Len(radios) |-> KalmanFilter(DefaultKalmanR, DefaultKalmanQ)]
    /\ enableHeatmap = FALSE
    /\ rawRSSI = << >>
    /\ frames = 0

NextKalman ==
    \/ KalmanRender
    \/ KalmanRInput
    \/ KalmanQInput
    \/ KalmanToggle
    \/ HeatmapToggle
    \/ KalmanNumRadiosChange
    \/ KalmanReset

SpecKalman == InitKalman /\ [][NextKalman]_vars

-----------------------------------------------------------------------------
(* The functions of the RSSI model on chosen arguments.  The sliders stand  *)
(* at one of the settings below; one call of a function is made and its    *)
(* arguments and result are recorded in probe.                              *)

\* settings <<txPower, 10 * pathLossExponent>> within the ranges of the inputs
ProbeSettings == { <<-59, 27>>, <<-59, 20>>, <<-80, 40>>, <<-30, 40>> }

\* distances in metres, in units of 1/Q: 0, 0.05, 0.1, just above 0.1, 0.5,
\* 1, 2.5, 5, 10, 25 and 100
DistanceSamples ==
    { 0, Q \div 20, Q \div 10, Q \div 10 + 1, Q \div 2, Q, (5 * Q) \div 2,
      5 * Q, 10 * Q, 25 * Q, 100 * Q }

\* samples of the standard normal variable of gaussianRandom, in units of 1/Q
ProbeZ == { -8 * Q, -Q, 0, 8 * Q }

ProbeReceivers == { Point(300, 100), Point(100, 100), Point(300, 300), Point(700, 500) }

\* lists of walls: none; the scenarios of the prototype; a wall that is not
\* on the path; crossing, slanted and parallel walls; an unknown material; a
\* wall of length zero; four heavy walls; a material that names a property
\* of Object.prototype; walls that touch the first path with an end, pass
\* through its ends, lie on it, and miss it beyond the receiver or beside it
ProbeWalls ==
    { << >>,
      << Wall(Point(200, 100), Point(200, 200), "drywall"),
         Wall(Point(100, 50), Point(100, 150), "glass"),
         Wall(Point(300, 150), Point(300, 50), "brick"),
         Wall(Point(150, 100), Point(250, 100), "metal"),
         Wall(Point(350, 50), Point(350, 150), "concrete"),
         Wall(Point(200, 120), Point(200, 300), "door_wood"),
         Wall(Point(150, 0), Point(250, 100), "door_metal") >>,
      << Wall(Point(200, 50), Point(200, 150), "constructor") >>,
      << Wall(Point(200, 50), Point(200, 150), "drywall") >>,
      << Wall(Point(200, 50), Point(200, 150), "concrete") >>,
      << Wall(Point(250, 50), Point(250, 150), "drywall"),
         Wall(Point(150, 50), Point(150, 150), "drywall") >>,
      << Wall(Point(250, 50), Point(250, 300), "concrete"),
         Wall(Point(150, 50), Point(250, 150), "metal"),
         Wall(Point(120, 150), Point(280, 50), "plaster") >>,
      << Wall(Point(50, 200), Point(350, 200), "brick"),
         Wall(Point(50, 100), Point(350, 100), "glass"),
         Wall(Point(200, 100), Point(200, 100), "metal") >>,
      << Wall(Point(150, 50), Point(150, 300), "metal"),
         Wall(Point(180, 50), Point(180, 300), "metal"),
         Wall(Point(210, 50), Point(210, 300), "door_metal"),
         Wall(Point(240, 50), Point(240, 300), "door_wood") >> }

InitProbe ==
    /\ numRadios = 4
    /\ radiosGen = 0
    /\ radios = initializeRadios(4)
    /\ device = Point(width \div 2, height \div 2)
    /\ \E setting \in ProbeSettings :
          /\ txPower = setting[1]
          /\ pathLossExponent = setting[2]
    /\ minRSSI = -100
    /\ enableNoise = FALSE
    /\ noiseStdDev \in NoiseStdDevValues
    /\ dragging = NULL
    /\ dragOffset = Point(0, 0)
    /\ LET r == performTrilateration([i \in 1..4 |-> 0], StatusElement)
       IN  /\ measurements = r.measurements
           /\ estimatedPosition = r.estimatedPosition
           /\ statusMessage = r.statusMessage
    /\ interactiveObjects = Meshes
    /\ edits = 0
    /\ rendered = TRUE
    /\ probe = [op |-> "none", in |-> << >>, out |-> << >>]
    /\ NoKalmanFilter

\* calculateRSSI(d) with the noise sample z
ProbeRSSI ==
    /\ probe.op = "none"
    /\ \E d \in DistanceSamples, z \in (IF enableNoise THEN ProbeZ ELSE {0}) :
           /\ probe' = [op  |-> "calculateRSSI",
                        in  |-> [d |-> d, z |-> z, noise |-> enableNoise],
                        out |-> calculateRSSI(d, z)]
           /\ UNCHANGED appVars

\* estimateDistanceFromRSSI(calculateRSSI(d))
ProbeRoundTrip ==
    /\ probe.op = "none"
    /\ \E d \in DistanceSamples, z \in (IF enableNoise THEN {-Q, 0} ELSE {0}) :
           /\ probe' = [op  |-> "roundTrip",
                        in  |-> [d |-> d, z |-> z, noise |-> enableNoise],
                        out |-> estimateDistanceFromRSSI(calculateRSSI(d, z))]
           /\ UNCHANGED appVars

\* calculateRSSI at two distances d1 <= d2
ProbePair ==
    /\ probe.op = "none"
    /\ \E d1 \in DistanceSamples, d2 \in DistanceSamples,
          z \in (IF enableNoise THEN {-Q, 0} ELSE {0}) :
           /\ d1 <= d2
           /\ probe' = [op  |-> "pair",
                        in  |-> [d1 |-> d1, d2 |-> d2, z |-> z, noise |-> enableNoise],
                        out |-> << calculateRSSI(d1, z), calculateRSSI(d2, -z) >>]
           /\ UNCHANGED appVars

\* calculateRSSIWithWalls with the settings of the sliders
ProbeRSSIWithWalls ==
    /\ probe.op = "none"
    /\ \E receiver \in ProbeReceivers, walls \in ProbeWalls,
          angle \in BOOLEAN, cumulative \in BOOLEAN :
           LET params == [transmitter            |-> Point(100, 100),
                          receiver               |-> receiver,
                          walls                  |-> walls,
                          txPower                |-> txPower,
                          pathLossExponent       |-> pathLossExponent,
                          scale                  |-> scale,
                          enableAngleEffect      |-> angle,
                          enableCumulativeEffect |-> cumulative]
           IN  /\ probe' = [op  |-> "calculateRSSIWithWalls",
                            in  |-> params,
                            out |-> calculateRSSIWithWalls(params)]
               /\ UNCHANGED appVars

\* material tags: those of the table, two that the table does not know, and
\* names of properties of Object.prototype
MaterialTags ==
    DOMAIN WALL_MATERIALS \cup {"plaster", "", "constructor", "toString", "__proto__"}

\* new Wall(start, end, material)
ProbeWall ==
    /\ probe.op = "none"
    /\ \E material \in MaterialTags :
           /\ probe' = [op  |-> "Wall",
                        in  |-> material,
                        out |-> Wall(Point(200, 50), Point(200, 150), material)]
           /\ UNCHANGED appVars

\* walls to add to a list: long walls near the transmitter and near the
\* receiver, a slanted wall, a wall whose attenuation is undefined, a wall
\* that crosses none of the paths, the drywall of scenario 2, and walls
\* perpendicular to the slanted paths
ExtraWalls ==
    { Wall(Point(200, 50), Point(200, 150), "drywall"),
      Wall(Point(150, 250), Point(250, 150), "brick"),
      Wall(Point(360, 360), Point(440, 240), "concrete"),
      Wall(Point(120, 0), Point(120, 600), "glass"),
      Wall(Point(290, 0), Point(290, 600), "brick"),
      Wall(Point(110, 50), Point(130, 250), "metal"),
      Wall(Point(200, 0), Point(200, 600), "valueOf"),
      Wall(Point(50, 0), Point(50, 600), "concrete") }

\* calculateRSSIWithWalls before and after walls.push(extra)
ProbeAddWall ==
    /\ probe.op = "none"
    /\ \E receiver \in ProbeReceivers, walls \in ProbeWalls, extra \in ExtraWalls,
          angle \in BOOLEAN, cumulative \in BOOLEAN :
           LET params == [transmitter            |-> Point(100, 100),
                          receiver               |-> receiver,
                          walls                  |-> walls,
                          txPower                |-> txPower,
                          pathLossExponent       |-> pathLossExponent,
                          scale                  |-> scale,
                          enableAngleEffect      |-> angle,
                          enableCumulativeEffect |-> cumulative]
               more   == [params EXCEPT !.walls = Append(walls, extra)]
           IN  /\ probe' = [op  |-> "addWall",
                            in  |-> [params |-> params, extra |-> extra],
                            out |-> [before |-> calculateRSSIWithWalls(params),
                                     after  |-> calculateRSSIWithWalls(more)]]
               /\ UNCHANGED appVars

\* signal directions (receiver - transmitter) and walls: along the axes,
\* diagonal, slanted, perpendicular and parallel to each other, and a wall
\* whose two ends coincide
SignalDirections ==
    { Point(200, 0), Point(0, 200), Point(200, 200), Point(600, 400),
      Point(-110, -80), Point(200, 100) }

AngleWalls ==
    { Wall(Point(200, 50), Point(200, 150), "drywall"),
      Wall(Point(50, 100), Point(350, 100), "glass"),
      Wall(Point(150, 250), Point(250, 150), "brick"),
      Wall(Point(100, 100), Point(400, 400), "brick"),
      Wall(Point(360, 360), Point(440, 240), "concrete"),
      Wall(Point(100, 100), Point(400, 300), "concrete"),
      Wall(Point(0, 0), Point(80, -110), "metal"),
      Wall(Point(10, 10), Point(20, 310), "door_wood"),
      Wall(Point(200, 100), Point(200, 100), "metal") }

\* calculatePenetrationAngle for a direction and a wall, for the opposite
\* direction, and for the wall with its two ends exchanged
ProbePenetrationAngle ==
    /\ probe.op = "none"
    /\ \E signalDirection \in SignalDirections, wall \in AngleWalls :
           LET back == Point(-signalDirection.x, -signalDirection.y)
               flip == Wall(wall.end, wall.start, wall.material)
           IN  /\ probe' = [op  |-> "calculatePenetrationAngle",
                            in  |-> [signalDirection |-> signalDirection, wall |-> wall],
                            out |-> [factor   |-> calculatePenetrationAngle(signalDirection, wall),
                                     opposite |-> calculatePenetrationAngle(back, wall),
                                     flipped  |-> calculatePenetrationAngle(signalDirection, flip)]]
               /\ UNCHANGED appVars

\* the weight of the unclamped normalized RSSI
weight_Unclamped(rssi) == MathPow10((rssi + 100 * Q) \div 40)

\* the weight of a measurement in leastSquaresTrilateration (units of 1/Q):
\* normalizedRSSI = Math.max(0, Math.min(1, (m.rssi + 100) / 40)) and
\* Math.pow(10, normalizedRSSI)
weight(rssi) == MathPow10(Max(0, Min(Q, (rssi + 100 * Q) \div 40)))

\* RSSI values between -120 and -30 dBm
WeightSamples ==
    { -120 * Q, -110 * Q, -100 * Q - 1, -100 * Q, -100 * Q + 1, -96 * Q, -90 * Q,
      -80 * Q, -70 * Q, -61 * Q, -60 * Q - 1, -60 * Q, -60 * Q + 1, -45 * Q, -30 * Q }

\* the weights of two RSSI values
ProbeWeight ==
    /\ probe.op = "none"
    /\ \E r1 \in WeightSamples, r2 \in WeightSamples :
           /\ r1 <= r2
           /\ probe' = [op  |-> "weight",
                        in  |-> [r1 |-> r1, r2 |-> r2],
                        out |-> << weight(r1), weight(r2) >>]
           /\ UNCHANGED appVars

\* lists of walls to reorder: those of ProbeWalls with two to four walls,
\* four walls crossed at different distances, and a drywall and a slanted
\* metal wall that cross the first path at the same point (200, 100)
PermuteWalls ==
    {walls \in ProbeWalls : Len(walls) \in 2..4}
    \cup { << Wall(Point(150, 0), Point(150, 600), "brick"),
              Wall(Point(250, 0), Point(250, 600), "glass"),
              Wall(Point(180, 0), Point(180, 600), "metal"),
              Wall(Point(120, 0), Point(120, 600), "drywall") >>,
           << Wall(Point(200, 50), Point(200, 150), "drywall"),
              Wall(Point(150, 50), Point(250, 150), "metal"),
              Wall(Point(250, 50), Point(250, 150), "concrete") >> }

\* the orders of a list of n elements
Orders(n) == {p \in [1..n -> 1..n] : \A i, j \in 1..n : p[i] = p[j] => i = j}

\* calculateRSSIWithWalls on a list of walls and on the same walls stored in
\* another order
ProbePermuteWalls ==
    /\ probe.op = "none"
    /\ \E receiver \in ProbeReceivers, walls \in PermuteWalls,
          angle \in BOOLEAN, cumulative \in BOOLEAN :
         \E order \in Orders(Len(walls)) :
           LET params == [transmitter            |-> Point(100, 100),
                          receiver               |-> receiver,
                          walls                  |-> walls,
                          txPower                |-> txPower,
                          pathLossExponent       |-> pathLossExponent,
                          scale                  |-> scale,
                          enableAngleEffect      |-> angle,
                          enableCumulativeEffect |-> cumulative]
               reordered == [i \in 1..Len(walls) |-> walls[order[i]]]
           IN  /\ probe' = [op  |-> "permuteWalls",
                            in  |-> [params |-> params, order |-> order],
                            out |-> << calculateRSSIWithWalls(params),
                                       calculateRSSIWithWalls(
                                           [params EXCEPT !.walls = reordered]) >>]
               /\ UNCHANGED appVars

NextProbe ==
    \/ SetEnableNoise
    \/ ProbeRSSI
    \/ ProbeRoundTrip
    \/ ProbePair
    \/ ProbeRSSIWithWalls
    \/ ProbeWall
    \/ ProbeAddWall
    \/ ProbePenetrationAngle
    \/ ProbeWeight

SpecProbe == InitProbe /\ [][NextProbe]_vars

\* the walls array in every order
NextPermute == ProbePermuteWalls

SpecPermute == InitProbe /\ [][NextPermute]_vars

-----------------------------------------------------------------------------
(* Phase 1: the weighted least-squares solver (leastSquaresTrilateration).  *)
(* The listings give the loop and the weighted accumulation; the solution   *)
(* of the 2x2 system, the singularity test, the update and the convergence  *)
(* test follow section 4.4.  The solver works in pixels; here a coordinate  *)
(* is an integer number of 1/Sub pixel.                                     *)

Sub == 2^10

\* a and b halved until b is below 2^21
RECURSIVE Reduced(_, _)
Reduced(a, b) == IF b >= 2^21 THEN Reduced(a \div 2, b \div 2) ELSE <<a, b>>

\* the quotient a / b of integers a >= 0, b > 0 in units of 1/Q
Ratio(a, b) ==
    LET ab == Reduced(a, b)
    IN  (ab[1] \div ab[2]) * Q + Quotient(ab[1] % ab[2], ab[2])

SignedRatio(a, b) ==
    IF (a < 0) = (b < 0) THEN Ratio(Abs(a), Abs(b)) ELSE -Ratio(Abs(a), Abs(b))

\* one Newton step from y toward Math.sqrt(v / Q), in units of 1/Q
NewtonNearOne(v, y) == (y + Ratio(v, y)) \div 2

\* Math.sqrt(v / Q) in units of 1/Q for Q <= v <= 2 Q (Newton from above)
SqrtNearOne(v) ==
    NewtonNearOne(v, NewtonNearOne(v, NewtonNearOne(v, Q + (v - Q) \div 2)))

\* Math.sqrt(dx * dx + dy * dy) in the units of dx and dy: the longer leg
\* times sqrt(1 + (shorter / longer)^2)
Length(dx, dy) ==
    LET longer  == Max(Abs(dx), Abs(dy))
        shorter == Min(Abs(dx), Abs(dy))
        ratio   == Ratio(shorter, longer)
    IN  IF longer = 0 THEN 0
        ELSE Product(longer, SqrtNearOne(Q + Product(ratio, ratio)))

RECURSIVE SumTo(_, _)
SumTo(terms, n) == IF n = 0 THEN 0 ELSE terms[n] + SumTo(terms, n - 1)

-----------------------------------------------------------------------------

\* maxIterations of the solver
maxIterations == 100

\* convergenceThreshold is 1 / ThresholdInverse pixel
ThresholdInverse == 100

\* the terms of a measurement with weight w, residual and Jacobian (J_x, J_y)
WeightedTerm(w, residual, J_x, J_y) ==
    [xx |-> Product(w, Product(Abs(J_x), Abs(J_x))),
     yy |-> Product(w, Product(Abs(J_y), Abs(J_y))),
     xy |-> SignedProduct(w, SignedProduct(J_x, J_y)),
     rx |-> SignedProduct(SignedProduct(residual, J_x), w),
     ry |-> SignedProduct(SignedProduct(residual, J_y), w)]

\* the terms of the measurement m at the offset (dx, dy) from its radio and
\* the predicted distance predictedDist; a measurement whose predicted
\* distance is below 0.1 is skipped
TermAt(m, dx, dy, predictedDist) ==
    IF predictedDist * 10 < Sub
    THEN [xx |-> 0, yy |-> 0, xy |-> 0, rx |-> 0, ry |-> 0]
    ELSE WeightedTerm(weight(m.rssi),
                      predictedDist - (m.estimatedDistance * scale) \div (Q \div Sub),
                      SignedRatio(dx, predictedDist),
                      SignedRatio(dy, predictedDist))

\* the terms one measurement adds to the sums of an iteration at (x, y)
Term(m, x, y) ==
    TermAt(m, x - radios[m.radio].x * Sub, y - radios[m.radio].y * Sub,
           Length(x - radios[m.radio].x * Sub, y - radios[m.radio].y * Sub))

\* the sums of an iteration over the terms t of n measurements
Sums(t, n) ==
    [sumJtJ_xx |-> SumTo([k \in 1..n |-> t[k].xx], n),
     sumJtJ_yy |-> SumTo([k \in 1..n |-> t[k].yy], n),
     sumJtJ_xy |-> SumTo([k \in 1..n |-> t[k].xy], n),
     sumJtr_x  |-> SumTo([k \in 1..n |-> t[k].rx], n),
     sumJtr_y  |-> SumTo([k \in 1..n |-> t[k].ry], n)]

\* the end of an iteration with the cap five iterations late
Advance_LateCap(s, deltaX, deltaY, step) ==
    [iter   |-> s.iter + 1,
     x      |-> s.x + deltaX,
     y      |-> s.y + deltaY,
     step   |-> step,
     status |-> IF step * ThresholdInverse < Sub THEN "converged"
                ELSE IF s.iter + 1 >= maxIterations + 5 THEN "capped"
                ELSE "iterating"]

\* the end of an iteration: the estimate moves by (deltaX, deltaY), and the
\* loop ends when the step is below the threshold or the count is at the cap
Advance(s, deltaX, deltaY, step) ==
    [iter   |-> s.iter + 1,
     x      |-> s.x + deltaX,
     y      |-> s.y + deltaY,
     step   |-> step,
     status |-> IF step * ThresholdInverse < Sub THEN "converged"
                ELSE IF s.iter + 1 >= maxIterations THEN "capped"
                ELSE "iterating"]

\* the solution that answers a singular determinant with the origin
Solve_SingularOrigin(s, sum, det) ==
    IF Abs(det) < 1
    THEN [s EXCEPT !.status = "singular", !.x = 0, !.y = 0]
    ELSE [s EXCEPT !.status = "iterating"]

\* the 2x2 system of an iteration with the determinant det (|det| < 1e-10
\* is below one unit of 1/Q): the loop ends with the estimate it has, or
\* the estimate moves by the solution
Solve(s, sum, det) ==
    IF Abs(det) < 1
    THEN [s EXCEPT !.status = "singular"]
    ELSE Advance(s,
                 -SignedRatio(SignedProduct(sum.sumJtr_x, sum.sumJtJ_yy)
                              - SignedProduct(sum.sumJtr_y, sum.sumJtJ_xy), det),
                 -SignedRatio(SignedProduct(sum.sumJtr_y, sum.sumJtJ_xx)
                              - SignedProduct(sum.sumJtr_x, sum.sumJtJ_xy), det),
                 Length(-SignedRatio(SignedProduct(sum.sumJtr_x, sum.sumJtJ_yy)
                                     - SignedProduct(sum.sumJtr_y, sum.sumJtJ_xy), det),
                        -SignedRatio(SignedProduct(sum.sumJtr_y, sum.sumJtJ_xx)
                                     - SignedProduct(sum.sumJtr_x, sum.sumJtJ_xy), det)))

\* the determinant of the sums
Determinant(sum) ==
    Product(sum.sumJtJ_xx, sum.sumJtJ_yy) - Product(Abs(sum.sumJtJ_xy), Abs(sum.sumJtJ_xy))

\* the sums over the measurements ms at the estimate of the solver state s
SumsAt(ms, s) == Sums([k \in 1..Len(ms) |-> Term(ms[k], s.x, s.y)], Len(ms))

\* one pass of the loop of leastSquaresTrilateration from the solver state s
\* = [iter, x, y, step, status]: the sums over the measurements, the
\* determinant, the step, and whether the loop goes on
leastSquaresIteration(ms, s) ==
    Solve(s, SumsAt(ms, s), Determinant(SumsAt(ms, s)))

\* the initial guess: the closed form for exactly three measurements when
\* it succeeds, else the weighted centroid of the radios
initialGuess(ms) ==
    LET n   == Len(ms)
        w   == [k \in 1..n |-> weight(ms[k].rssi) \div (2^10)]
        W   == SumTo(w, n)
        cx  == Ratio(SumTo([k \in 1..n |-> w[k] * radios[ms[k].radio].x], n), W)
        cy  == Ratio(SumTo([k \in 1..n |-> w[k] * radios[ms[k].radio].y], n), W)
        geo == IF n = 3 THEN trilaterate(ms[1], ms[2], ms[3]) ELSE NULL
    IN  IF geo # NULL THEN Point(geo.x * Sub, geo.y * Sub)
        ELSE Point(cx \div (Q \div Sub), cy \div (Q \div Sub))

\* radios of the solver's runs: the corners, three on a vertical line, and
\* three corners
SolverLayouts ==
    { initializeRadios(4),
      << Point(80, 80), Point(80, 300), Point(80, 520) >>,
      << Point(720, 80), Point(720, 520), Point(80, 80) >> }

\* filtered RSSI values of a measurement
SolverRSSI == { -95 * Q, -80 * Q, -65 * Q }

InitSolver ==
    /\ radios \in SolverLayouts
    /\ numRadios = Len(radios)
    /\ radiosGen = 0
    /\ device = Point(width \div 2, height \div 2)
    /\ txPower = -59
    /\ pathLossExponent = 27
    /\ minRSSI = -100
    /\ enableNoise = FALSE
    /\ noiseStdDev = 5
    /\ dragging = NULL
    /\ dragOffset = Point(0, 0)
    /\ LET r == performTrilateration([i \in 1..Len(radios) |-> 0], StatusElement)
       IN  /\ measurements = r.measurements
           /\ estimatedPosition = r.estimatedPosition
           /\ statusMessage = r.statusMessage
    /\ interactiveObjects = Meshes
    /\ edits = 0
    /\ rendered = TRUE
    /\ probe = [op |-> "none", in |-> << >>, out |-> << >>]
    /\ NoKalmanFilter

\* leastSquaresTrilateration(measurements) up to its loop: the measurements
\* and the initial guess
SolverStart ==
    /\ probe.op = "none"
    /\ \E rssi \in [1..Len(radios) -> SolverRSSI] :
           LET ms == [k \in 1..Len(radios) |->
                         [radio             |-> k,
                          rssi              |-> rssi[k],
                          estimatedDistance |-> estimateDistanceFromRSSI(rssi[k])]]
               guess == initialGuess(ms)
           IN  probe' = [op  |-> "leastSquaresTrilateration",
                         in  |-> [measurements |-> ms, guess |-> guess],
                         out |-> [iter |-> 0, x |-> guess.x, y |-> guess.y,
                                  step |-> 0, status |-> "iterating"]]
    /\ UNCHANGED appVars

\* one pass of the loop
SolverIterate ==
    /\ probe.op = "leastSquaresTrilateration"
    /\ probe.out.status = "iterating"
    /\ probe' = [probe EXCEPT !.out = leastSquaresIteration(probe.in.measurements, @)]
    /\ UNCHANGED appVars

NextSolver == SolverStart \/ SolverIterate

SpecSolver == InitSolver /\ [][NextSolver]_vars

-----------------------------------------------------------------------------
(* Properties of a rendered frame                                           *)

\* the position of the radio of the k-th measurement
Anchor(k) == radios[measurements[k].radio]

\* twice the signed area of the triangle p1 p2 p3 is zero
Collinear(p1, p2, p3) ==
    p1.x * (p2.y - p3.y) + p2.x * (p3.y - p1.y) + p3.x * (p1.y - p2.y) = 0

\* A * E - B * D of the first three measurements
Denominator ==
    (2 * (Anchor(2).x - Anchor(1).x)) * (2 * (Anchor(3).y - Anchor(2).y))
      - (2 * (Anchor(2).y - Anchor(1).y)) * (2 * (Anchor(3).x - Anchor(2).x))

InsufficientText == "Insufficient radios (need >=3 with RSSI >= "
CollinearText == "Radios are collinear - cannot trilaterate"

\* the estimate lies within tol pixels of the point p on both axes
Near(p, tol) ==
    /\ estimatedPosition # NULL
    /\ Abs(estimatedPosition.x - p.x) <= tol
    /\ Abs(estimatedPosition.y - p.y) <= tol

\* C2: when the measurement list of a frame has fewer than three entries,
\* the frame leaves no estimate (an estimate of an earlier frame is cleared)
\* and shows the warning that names the insufficient radios.
C2_InsufficientClearsEstimate ==
    Len(measurements) < 3 =>
        /\ estimatedPosition = NULL
        /\ statusMessage.show
        /\ statusMessage.type = "warning"
        /\ statusMessage.text[1] = InsufficientText

\* a frame of a placement that had an estimate, rendered after minRSSI was
\* raised above the signal strength of all but at most two radios
C2_Witness ==
    /\ Len(measurements) < 3
    /\ minRSSI = -60
    /\ ~Collinear(radios[1], radios[2], radios[3])
    /\ estimatedPosition = NULL
    /\ statusMessage.show

\* the signal strengths calculateRSSI can return for radio i in this frame
RSSIValues(i) ==
    LET d == calculateTrueDistance(radios[i].x, radios[i].y, device.x, device.y)
    IN  { calculateRSSI(d, z) : z \in (IF enableNoise THEN ZSamples ELSE {0}) }

ListedIsPassing ==
    /\ \A k \in 1..Len(measurements) :
          /\ measurements[k].radio \in 1..Len(radios)
          /\ measurements[k].rssi \in RSSIValues(measurements[k].radio)
          /\ measurements[k].rssi >= minRSSI * Q
    /\ \A k \in 1..(Len(measurements) - 1) :
          measurements[k].radio < measurements[k + 1].radio
    /\ \A i \in 1..Len(radios) :
          (\A v \in RSSIValues(i) : v >= minRSSI * Q)
              => \E k \in 1..Len(measurements) : measurements[k].radio = i

\* C3: after every rendered frame the measurement list holds exactly the
\* radios whose signal strength is >= minRSSI (one equal to minRSSI
\* included), each once, in the order of this.radios.
C3_ListIsPassingRadios == rendered => ListedIsPassing

\* a frame in which one radio is listed with a signal strength equal to
\* minRSSI and the others are left out
C3_Witness ==
    /\ rendered
    /\ Len(radios) >= 3
    /\ Len(measurements) = 1
    /\ measurements[1].rssi = minRSSI * Q
    /\ txPower = minRSSI

\* C4: after every frame either there is an estimate and no warning is
\* shown, or there is no estimate and a warning that names the reason is
\* shown.
C4_EstimateOrWarning ==
    \/ /\ estimatedPosition # NULL
       /\ estimatedPosition.x \in Int
       /\ estimatedPosition.y \in Int
       /\ ~statusMessage.show
    \/ /\ estimatedPosition = NULL
       /\ statusMessage.show
       /\ statusMessage.type = "warning"
       /\ statusMessage.text[1] \in {InsufficientText, CollinearText}

\* a frame with an estimate that follows a frame with a warning
C4_Witness ==
    /\ estimatedPosition # NULL
    /\ ~statusMessage.show
    /\ statusMessage.type = "warning"

\* C5: with exactly three measurements whose radios are collinear the frame
\* still ends with a position.
C5_CollinearStillEstimates ==
    (Len(measurements) = 3 /\ Collinear(Anchor(1), Anchor(2), Anchor(3)))
        => estimatedPosition # NULL

\* C6: with three or more measurements the closed form gives no position
\* whenever the first three radios are collinear, gives none only when
\* |A*E - B*D| < 0.001, and gives a position otherwise.
C6_FailsIffCollinear ==
    Len(measurements) >= 3 =>
        /\ Collinear(Anchor(1), Anchor(2), Anchor(3))
              => (estimatedPosition = NULL /\ statusMessage.text[1] = CollinearText)
        /\ estimatedPosition = NULL => Abs(Denominator) * 1000 < 1
        /\ (~Collinear(Anchor(1), Anchor(2), Anchor(3)) /\ Abs(Denominator) * 1000 >= 1)
              => (estimatedPosition # NULL /\ ~statusMessage.show)

\* a frame with noisy distances to three collinear radios and a fourth radio
\* off their line
C6_Witness ==
    /\ Len(measurements) = 4
    /\ enableNoise
    /\ Collinear(Anchor(1), Anchor(2), Anchor(3))
    /\ ~Collinear(Anchor(1), Anchor(2), Anchor(4))
    /\ estimatedPosition = NULL

\* tolerance of the estimate in pixels (the closed form is computed in fixed
\* point and the estimate is rounded down to whole pixels)
PosTol == 1

\* the first three measurements carry the noise-free signal strength and
\* none of them lies on a limit of the clamp
Unclamped ==
    /\ ~enableNoise
    /\ \A k \in 1..3 : /\ measurements[k].rssi > -120 * Q
                       /\ measurements[k].rssi < -30 * Q

\* the rounding of the squared radii, amplified by the closed form, stays
\* below one pixel
Conditioned ==
    LET r2max == Max(Square(measurements[1].estimatedDistance * scale),
                     Max(Square(measurements[2].estimatedDistance * scale),
                         Square(measurements[3].estimatedDistance * scale)))
        spread == 2 * (Abs(Anchor(2).x - Anchor(1).x) + Abs(Anchor(2).y - Anchor(1).y)
                       + Abs(Anchor(3).x - Anchor(2).x) + Abs(Anchor(3).y - Anchor(2).y))
    IN  (r2max \div 8192 + 1) * spread <= Abs(Denominator)

\* the receiver is at least 0.1 m from each of the first three radios
BeyondFloor == \A k \in 1..3 : measurements[k].trueDistance >= Q \div 10

IdealFrame ==
    /\ rendered
    /\ Len(measurements) >= 3
    /\ Unclamped
    /\ ~Collinear(Anchor(1), Anchor(2), Anchor(3))
    /\ Conditioned

\* C7 as stated: without noise, with no signal strength on the clamp and
\* three non-collinear radios the estimate is the position of the receiver.
C7_EstimateIsTruePosition == IdealFrame => Near(device, PosTol)

\* C7: without noise, with no signal strength on the clamp, three
\* non-collinear radios and the receiver at least 0.1 m from each of them,
\* the estimate is the position of the receiver.
C7_EstimateIsTruePositionBeyondFloor ==
    (IdealFrame /\ BeyondFloor) => Near(device, PosTol)

\* a frame of the default layout with the receiver away from the centre
C7_Witness ==
    /\ IdealFrame
    /\ BeyondFloor
    /\ Len(radios) = 4
    /\ device = Point(700, 560)
    /\ estimatedPosition # NULL

\* the radios (0,0), (10,0), (0,10) m and the receiver (3,4) m, moved by o
Scenario(o) ==
    /\ radios = << Point(o.x, o.y), Point(o.x + 10 * scale, o.y),
                   Point(o.x, o.y + 10 * scale) >>
    /\ device = Point(o.x + 3 * scale, o.y + 4 * scale)
    /\ txPower = -59
    /\ pathLossExponent = 20
    /\ ~enableNoise
    /\ rendered
    /\ Len(measurements) = 3

SquaredPixels(p, q) == (p.x - q.x) * (p.x - q.x) + (p.y - q.y) * (p.y - q.y)

\* the squared true distances of the three radios are a, b, c square metres
\* and the estimate lies within 0.05 m of the receiver
Example(a, b, c) ==
    \A o \in {Point(0, 0), Point(scale, scale)} :
        Scenario(o) =>
            /\ SquaredPixels(radios[1], device) = a * scale * scale
            /\ SquaredPixels(radios[2], device) = b * scale * scale
            /\ SquaredPixels(radios[3], device) = c * scale * scale
            /\ Abs(Square(measurements[1].trueDistance * scale) - a * scale * scale) <= a
            /\ Abs(Square(measurements[2].trueDistance * scale) - b * scale * scale) <= b
            /\ Abs(Square(measurements[3].trueDistance * scale) - c * scale * scale) <= c
            /\ Near(device, scale \div 20)

\* C8 as stated: for radios at (0,0), (10,0), (0,10) m, txPower -59,
\* exponent 2.0 and the receiver at (3,4) m the squared true distances are
\* 25, 58, 25 and the estimate lies within 0.05 m of (3,4) m.
C8_WorkedExample == Example(25, 58, 25)

\* C8: for radios at (0,0), (10,0), (0,10) m, txPower -59, exponent 2.0 and
\* the receiver at (3,4) m the squared true distances are 25, 65, 45 and the
\* estimate lies within 0.05 m of (3,4) m.
C8_WorkedExampleDistances == Example(25, 65, 45)

\* the frame of the example
C8_Witness ==
    /\ Scenario(Point(0, 0))
    /\ Near(Point(3 * scale, 4 * scale), scale \div 20)

-----------------------------------------------------------------------------
(* Properties of the RSSI model                                             *)

InRange(rssi) == rssi # NaN /\ -120 * Q <= rssi /\ rssi <= -30 * Q

\* C1: every signal strength returned by calculateRSSI and the field rssi of
\* every result of calculateRSSIWithWalls lies in [-120, -30] dBm, for every
\* distance, setting, noise sample, list of walls and toggles.
C1_RSSIInRange ==
    /\ probe.op = "calculateRSSI" => InRange(probe.out)
    /\ probe.op = "pair" => (InRange(probe.out[1]) /\ InRange(probe.out[2]))
    /\ probe.op = "calculateRSSIWithWalls" => InRange(probe.out.rssi)
    /\ \A k \in 1..Len(measurements) : InRange(measurements[k].rssi)

\* tolerance of the round trip in units of 1/Q (2^-20 is about 1e-6)
RoundTripTol == 1

\* the signal strength of distance d before the clamp, without noise
Unclipped(d) == txPower * Q - pathLossExponent * MathLog10(Max(Q \div 10, d))

RoundTripHolds ==
    Abs(probe.out - probe.in.d) <= RoundTripTol

\* C9 as stated: without noise, for every distance d > 0.1 and every
\* setting, estimateDistanceFromRSSI(calculateRSSI(d)) is d within 1e-6.
C9_RoundTrip ==
    (probe.op = "roundTrip" /\ ~probe.in.noise /\ probe.in.d > Q \div 10)
        => RoundTripHolds

\* C9: without noise, for every distance d > 0.1 and every setting for which
\* txPower - 10 n log10(d) lies in [-120, -30],
\* estimateDistanceFromRSSI(calculateRSSI(d)) is d within 1e-6.
C9_RoundTripUnclamped ==
    (probe.op = "roundTrip" /\ ~probe.in.noise /\ probe.in.d > Q \div 10
       /\ InRange(Unclipped(probe.in.d)))
        => RoundTripHolds

\* the round trip of 25 m at the default setting
C9_Witness ==
    /\ probe.op = "roundTrip"
    /\ ~probe.in.noise
    /\ probe.in.d = 25 * Q
    /\ txPower = -59
    /\ pathLossExponent = 27
    /\ InRange(Unclipped(probe.in.d))
    /\ RoundTripHolds

\* C10: without noise the signal strength does not rise with the distance:
\* d1 <= d2 implies calculateRSSI(d1) >= calculateRSSI(d2), also below the
\* floor of 0.1 m and where the clamp acts.
C10_Monotone ==
    (probe.op = "pair" /\ ~probe.in.noise) => probe.out[1] >= probe.out[2]

\* a pair with one distance below the floor and the other in the clamped
\* region
C10_Witness ==
    /\ probe.op = "pair"
    /\ ~probe.in.noise
    /\ probe.in.d1 < Q \div 10
    /\ Unclipped(probe.in.d2) < -120 * Q
    /\ probe.out[1] > probe.out[2]
    /\ probe.out[2] = -120 * Q

-----------------------------------------------------------------------------
(* Properties of the wall attenuation prototype                             *)

\* the attenuation in dB that the table of materials gives to a tag, the
\* attenuation of drywall for every other tag
MaterialAttenuation(material) ==
    CASE material = "drywall"    -> 3
      [] material = "concrete"   -> 10
      [] material = "brick"      -> 8
      [] material = "glass"      -> 2
      [] material = "metal"      -> 20
      [] material = "door_wood"  -> 4
      [] material = "door_metal" -> 12
      [] OTHER                   -> 3

\* C16: every wall has the attenuation that the table gives to its material
\* tag (3, 10, 8, 2, 20, 4 or 12 dB; drywall's 3 dB for a tag that the table
\* does not know), and the attenuation of every constructed wall is >= 0.
C16_MaterialAttenuation ==
    probe.op = "Wall" =>
        /\ probe.out.attenuation # UNDEFINED
        /\ probe.out.attenuation = MaterialAttenuation(probe.in)
        /\ probe.out.attenuation >= 0

\* the comparisons a > b and a < b of numbers, false when one of them is NaN
Greater(a, b) == a # NaN /\ b # NaN /\ a > b
Less(a, b) == Greater(b, a)

\* the segment transmitter-receiver of params and the wall have a point in
\* common and do not lie on parallel lines (cross products of whole pixels)
Cross(o, a, b) == (a.x - o.x) * (b.y - o.y) - (a.y - o.y) * (b.x - o.x)
Sign(v) == IF v > 0 THEN 1 ELSE IF v < 0 THEN -1 ELSE 0
Crosses(p1, p2, wall) ==
    /\ (p2.x - p1.x) * (wall.end.y - wall.start.y)
          # (p2.y - p1.y) * (wall.end.x - wall.start.x)
    /\ Sign(Cross(p1, p2, wall.start)) * Sign(Cross(p1, p2, wall.end)) <= 0
    /\ Sign(Cross(wall.start, wall.end, p1)) * Sign(Cross(wall.start, wall.end, p2)) <= 0

\* C11: for every transmitter, receiver, list of walls and setting of the two
\* toggles, the signal strength after one more wall that crosses the path
\* was added is not greater than before, and no total attenuation is negative.
C11_WallsNeverStrengthen ==
    /\ probe.op = "calculateRSSIWithWalls"
          => ~Less(probe.out.totalAttenuation, 0)
    /\ probe.op = "addWall"
          => /\ ~Less(probe.out.before.totalAttenuation, 0)
             /\ ~Less(probe.out.after.totalAttenuation, 0)
             /\ Crosses(probe.in.params.transmitter, probe.in.params.receiver,
                        probe.in.extra)
                  => ~Greater(probe.out.after.rssi, probe.out.before.rssi)

\* a wall added in front of two or more walls with the cumulative effect on:
\* the walls behind it get larger factors, and the signal strength, which is
\* not clamped, falls
C11_Witness ==
    /\ probe.op = "addWall"
    /\ probe.in.params.enableCumulativeEffect
    /\ probe.out.before.wallCount >= 2
    /\ probe.out.after.wallCount = probe.out.before.wallCount + 1
    /\ probe.out.after.intersections[1].wall = probe.in.extra
    /\ probe.out.before.rssi # NaN
    /\ probe.out.after.rssi > -120 * Q
    /\ probe.out.after.rssi < probe.out.before.rssi

\* what the fixed-point arithmetic of the factor may lose, in units of 1/Q
AngleTol == 8

\* the direction d and the wall are perpendicular, are parallel
Perpendicular(d, wall) ==
    d.x * (wall.end.x - wall.start.x) + d.y * (wall.end.y - wall.start.y) = 0
Parallel(d, wall) ==
    d.x * (wall.end.y - wall.start.y) - d.y * (wall.end.x - wall.start.x) = 0

\* the factor lies in [0.5, 1], is 1 for a perpendicular and 0.5 for a
\* parallel wall, and does not change with the sense of the direction or of
\* the wall
FactorAsDocumented ==
    LET f == probe.out.factor
        d == probe.in.signalDirection
        w == probe.in.wall
    IN  /\ f # NaN
        /\ Q \div 2 <= f /\ f <= Q
        /\ Perpendicular(d, w) => Q - f <= AngleTol
        /\ Parallel(d, w) => f - Q \div 2 <= AngleTol
        /\ probe.out.opposite = f
        /\ probe.out.flipped = f

\* C15: for every signal direction and every wall calculatePenetrationAngle
\* returns a factor in [0.5, 1]: 1 when the signal is perpendicular to the
\* wall, 0.5 when it is parallel to it, and the same value for the opposite
\* direction and for the wall with its ends exchanged.
C15_PenetrationFactor ==
    probe.op = "calculatePenetrationAngle" => FactorAsDocumented

\* one wall on a path that had none: the wall crosses the path, the
\* cumulative effect is off, and the angle effect is off or the wall is
\* perpendicular to the path
SingleWall ==
    /\ probe.op = "addWall"
    /\ probe.in.params.walls = << >>
    /\ Crosses(probe.in.params.transmitter, probe.in.params.receiver, probe.in.extra)
    /\ ~probe.in.params.enableCumulativeEffect
    /\ \/ ~probe.in.params.enableAngleEffect
       \/ Perpendicular(Point(probe.in.params.receiver.x - probe.in.params.transmitter.x,
                              probe.in.params.receiver.y - probe.in.params.transmitter.y),
                        probe.in.extra)

\* the signal strength with the wall is the one without it less the
\* attenuation of the wall's material: exactly with the angle effect off,
\* up to the rounding of the factor with it on
ReducedByAttenuation ==
    LET loss == MaterialAttenuation(probe.in.extra.material)
        drop == probe.out.before.rssi - probe.out.after.rssi
    IN  /\ probe.out.after.rssi # NaN
        /\ IF probe.in.params.enableAngleEffect
           THEN Abs(drop - loss * Q) <= loss * (AngleTol + 1)
           ELSE drop = loss * Q

Found == probe.out.intersections

\* C13 as stated: the results of findWallIntersections are strictly sorted
\* by distance from the transmitter: of two consecutive results the earlier
\* has the strictly smaller distance.
C13_StrictlySorted ==
    probe.op = "calculateRSSIWithWalls" =>
        \A i \in 1..(Len(Found) - 1) :
            /\ Found[i].distance < Found[i + 1].distance
            /\ Found[i].t < Found[i + 1].t

\* C13 as amended: the results are sorted by distance from the transmitter,
\* of two consecutive results the earlier has no larger distance (two walls
\* crossed at the same point have equal distances).
C13_Sorted ==
    probe.op = "calculateRSSIWithWalls" =>
        \A i \in 1..(Len(Found) - 1) :
            /\ Found[i].distance <= Found[i + 1].distance
            /\ Found[i].t <= Found[i + 1].t

\* three crossings, the first wall of the given list crossed last, the two
\* others crossed at the same point
C13_Witness ==
    /\ probe.op = "calculateRSSIWithWalls"
    /\ Len(Found) = 3
    /\ Found[3].wall = probe.in.walls[1]
    /\ Found[1].point = Found[2].point
    /\ Found[1].distance = Found[2].distance
    /\ Found[2].distance < Found[3].distance

\* the number of places of the list that hold the wall w
Count(list, w) == Cardinality({k \in 1..Len(list) : list[k] = w})

\* the point pt (units of 1/Q px) lies on the segment from a to b (whole
\* pixels) up to the rounding of pt, which is below 2^-10 px: inside its
\* bounding box and, in units of 2^-10 px, on its line
OnSegment(pt, a, b) ==
    LET dx == b.x - a.x
        dy == b.y - a.y
        rx == (pt.x - a.x * Q) \div (2^10)
        ry == (pt.y - a.y * Q) \div (2^10)
    IN  /\ Min(a.x, b.x) * Q - 2^10 <= pt.x /\ pt.x <= Max(a.x, b.x) * Q + 2^10
        /\ Min(a.y, b.y) * Q - 2^10 <= pt.y /\ pt.y <= Max(a.y, b.y) * Q + 2^10
        /\ Abs(dx * ry - dy * rx) <= 2 * (Abs(dx) + Abs(dy))

\* C14: findWallIntersections reports a wall exactly when the path and the
\* wall are not parallel and have a point in common (t and u in [0, 1],
\* ends included); it reports no wall more often than the list holds it, and
\* every reported point lies on the path and on the wall.
C14_ReportedIffCrossing ==
    probe.op = "calculateRSSIWithWalls" =>
        LET tx    == probe.in.transmitter
            rx    == probe.in.receiver
            walls == probe.in.walls
            Walls == {walls[k] : k \in 1..Len(walls)}
            Hits  == [j \in 1..Len(Found) |-> Found[j].wall]
        IN  /\ \A w \in Walls :
                   Count(Hits, w) = IF Crosses(tx, rx, w) THEN Count(walls, w) ELSE 0
            /\ \A j \in 1..Len(Found) :
                   /\ Found[j].wall \in Walls
                   /\ 0 <= Found[j].t /\ Found[j].t <= Q
                   /\ OnSegment(Found[j].point, tx, rx)
                   /\ OnSegment(Found[j].point, Found[j].wall.start, Found[j].wall.end)

\* a list with walls through both ends of the path and a wall that ends on
\* it, which are reported, and with a wall that lies on the path and walls
\* that miss it, which are not
C14_Witness ==
    /\ probe.op = "calculateRSSIWithWalls"
    /\ Len(probe.in.walls) = 7
    /\ Len(Found) = 4
    /\ Found[1].t = 0
    /\ Found[4].t = Q
    /\ \E j \in 1..Len(Found) : Found[j].point = Point(Found[j].wall.start.x * Q,
                                                        Found[j].wall.start.y * Q)
    /\ \E k \in 1..Len(probe.in.walls) :
           /\ Parallel(Point(probe.in.receiver.x - probe.in.transmitter.x,
                             probe.in.receiver.y - probe.in.transmitter.y),
                       probe.in.walls[k])
           /\ \A j \in 1..Len(Found) : Found[j].wall # probe.in.walls[k]

-----------------------------------------------------------------------------
(* Properties of the estimator                                              *)

\* the sanity margin around the canvas, in pixels: as wide as the canvas
SanityMargin == width

\* the point lies in the canvas or no farther than the margin from it
InSanityRegion(p) ==
    /\ -SanityMargin <= p.x /\ p.x <= width + SanityMargin
    /\ -SanityMargin <= p.y /\ p.y <= height + SanityMargin

SameInputs ==
    /\ probe.op = "performTrilateration"
    /\ rendered
    /\ ~enableNoise
    /\ ~probe.in.enableNoise
    /\ probe.in.radios = radios
    /\ probe.in.device = device
    /\ probe.in.txPower = txPower
    /\ probe.in.pathLossExponent = pathLossExponent
    /\ probe.in.minRSSI = minRSSI

\* C20: without noise, two ticks on the same anchors, receiver position and
\* settings give the same list of measurements and the same estimate (or
\* both none), whatever was rendered between them.
C20_Deterministic ==
    SameInputs =>
        /\ measurements = probe.out.measurements
        /\ estimatedPosition = probe.out.estimatedPosition

\* a frame with an estimate that repeats a recorded frame after two or more
\* events, with a warning shown and hidden again in between
C20_Witness ==
    /\ SameInputs
    /\ edits >= 2
    /\ estimatedPosition # NULL
    /\ statusMessage.type = "warning"
    /\ ~statusMessage.show

-----------------------------------------------------------------------------
(* Properties of the RSSI filters of phase 1                                *)

ParametersChanged == kalmanR' # kalmanR \/ kalmanQ' # kalmanQ

HasHistory(f) == f.x # NaN

\* the radios that have a filter before and after a step
Filtered == 1..Min(Len(rssiKalmanFilters), Len(rssiKalmanFilters'))

AllFresh ==
    \A i \in DOMAIN rssiKalmanFilters' :
        rssiKalmanFilters'[i] = KalmanFilter(kalmanR', kalmanQ')

\* C18 as stated: a change of R or Q leaves every radio's filter without
\* history, and a filter loses its history in no other step.
C18_ResetOnlyByParameters ==
    [][/\ ParametersChanged => AllFresh
       /\ \A i \in Filtered :
             HasHistory(rssiKalmanFilters[i]) /\ ~HasHistory(rssiKalmanFilters'[i])
                 => ParametersChanged]_vars

\* C18: a change of R or Q leaves every radio's filter without history, and
\* a filter loses its history only in such a step or when initializeRadios
\* lays the radios out again; in every other step, frames included, a filter
\* with history keeps one.
C18_ResetByParametersOrRadios ==
    [][/\ ParametersChanged => AllFresh
       /\ \A i \in Filtered :
             HasHistory(rssiKalmanFilters[i]) /\ ~HasHistory(rssiKalmanFilters'[i])
                 => ParametersChanged \/ radiosGen' # radiosGen]_vars

\* a frame with the filter enabled was drawn and then R was changed, the
\* only event so far: all filters are fresh again
C18_Witness ==
    /\ frames >= 1
    /\ edits = 1
    /\ enableKalmanFilter
    /\ kalmanR # DefaultKalmanR
    /\ rawRSSI # << >>
    /\ rssiKalmanFilters # << >>
    /\ \A i \in DOMAIN rssiKalmanFilters :
          rssiKalmanFilters[i] = KalmanFilter(kalmanR, kalmanQ)

FrameStep == frames' = frames + 1

\* C19: in a frame with the filter enabled each radio's filter advances by
\* exactly one call of filter on that radio's own raw measurement, and in no
\* other step is a filter altered except by being created afresh.
C19_OwnMeasurementOnly ==
    [][\A i \in Filtered :
         IF FrameStep /\ enableKalmanFilter
         THEN rssiKalmanFilters'[i] = filter(rssiKalmanFilters[i], rawRSSI'[i])
         ELSE \/ rssiKalmanFilters'[i] = rssiKalmanFilters[i]
              \/ rssiKalmanFilters'[i] = KalmanFilter(kalmanR', kalmanQ')]_vars

-----------------------------------------------------------------------------
(* Properties of a tick and of the mouse handlers                           *)

\* every event handler counts in edits; a step that leaves edits alone is a
\* frame, i.e. a call of performTrilateration
TickStep == edits' = edits

\* C21: a tick leaves the radios, the device, txPower, the path-loss
\* exponent, minRSSI and the noise settings (and the drag state) as they
\* were; it writes the estimate and the status message only.
C21_TickReadsOnly ==
    [][TickStep => UNCHANGED <<radios, numRadios, radiosGen, device, txPower,
                               pathLossExponent, minRSSI, enableNoise, noiseStdDev,
                               dragging, dragOffset>>]_vars

\* a tick after an event has produced an estimate
C21_Witness == rendered /\ edits >= 1 /\ estimatedPosition # NULL

-----------------------------------------------------------------------------
(* Properties of the cumulative wall effect                                 *)

\* rounding allowed between the running factor and the per-index power, in
\* units of 1/Q dB
CumulativeTol == 1024

\* the totals of the last calculateRSSIWithWalls: by the guide's per-index
\* loop, and that loop with the cumulative effect off
PerIndexTotal == AttenuatePerIndex(probe.in, probe.out.intersections, 1, 0)

PlainTotal ==
    AttenuatePerIndex([probe.in EXCEPT !.enableCumulativeEffect = FALSE],
                      probe.out.intersections, 1, 0)

\* C22: the total attenuation of calculateRSSIWithWalls (running factor,
\* multiplied by 1.1 for each wall after the first) is the sum over the
\* walls, nearest first, of loss * 1.1^index, and with the cumulative
\* effect off it is the plain sum of the losses.
C22_RunningFactorIsPerIndex ==
    probe.op = "calculateRSSIWithWalls" =>
        /\ IF probe.out.totalAttenuation = NaN \/ PerIndexTotal = NaN
           THEN probe.out.totalAttenuation = PerIndexTotal
           ELSE Abs(probe.out.totalAttenuation - PerIndexTotal) <= CumulativeTol
        /\ ~probe.in.enableCumulativeEffect =>
               probe.out.totalAttenuation = PlainTotal

\* three or more walls were crossed with the cumulative effect on, and the
\* total exceeds the plain sum
C22_Witness ==
    /\ probe.op = "calculateRSSIWithWalls"
    /\ probe.in.enableCumulativeEffect
    /\ probe.out.wallCount >= 3
    /\ probe.out.totalAttenuation # NaN
    /\ probe.out.totalAttenuation > PlainTotal + Q

-----------------------------------------------------------------------------
(* Properties of the distance floor                                         *)

\* distances below 0.1 m, in units of 1/Q m
NearDistances == {0, 1, Q \div 40, Q \div 20, Q \div 10 - 1}

\* offsets of less than 4 px (0.1 m at 40 px/m)
NearOffsets == {Point(0, 0), Point(3, 0), Point(2, 2)}

\* calculateRSSIWithWalls without walls from the device to a point nearby
NearWallRSSI(o) ==
    calculateRSSIWithWalls([transmitter            |-> device,
                            receiver               |-> Point(device.x + o.x, device.y + o.y),
                            walls                  |-> << >>,
                            txPower                |-> txPower,
                            pathLossExponent       |-> pathLossExponent,
                            scale                  |-> scale,
                            enableAngleEffect      |-> FALSE,
                            enableCumulativeEffect |-> FALSE])

\* the RSSI of the path-loss model at 0.1 m without noise
FloorRSSI ==
    Max(-120 * Q, Min(-30 * Q, txPower * Q - pathLossExponent * MathLog10(Q \div 10)))

\* C23: below 0.1 m calculateRSSI gives what it gives at 0.1 m (same noise
\* sample), calculateRSSIWithWalls likewise, and a tick with the device on
\* or next to a radio yields values in range and a positive distance.
C23_DistanceFloor ==
    /\ \A d \in NearDistances, z \in ZSamples \cup {0} :
          calculateRSSI(d, z) = calculateRSSI(Q \div 10, z)
    /\ \A o \in NearOffsets :
          /\ NearWallRSSI(o).distanceMeters = Q \div 10
          /\ NearWallRSSI(o).rssi = FloorRSSI
    /\ rendered =>
          \A k \in DOMAIN measurements :
              /\ InRange(measurements[k].rssi)
              /\ measurements[k].estimatedDistance > 0
              /\ measurements[k].trueDistance < Q \div 10 /\ ~enableNoise
                    => measurements[k].rssi = FloorRSSI

\* a tick with noise and the device exactly on a radio has produced an
\* estimate
C23_Witness ==
    /\ rendered
    /\ enableNoise
    /\ estimatedPosition # NULL
    /\ \E k \in DOMAIN measurements : measurements[k].trueDistance = 0

-----------------------------------------------------------------------------
(* Properties of the weighted least-squares solver of phase 1               *)

\* rounding of the power table at 10^1, in units of 1/Q
WeightTol == 32

Solving == probe.op = "leastSquaresTrilateration"

\* what holds of a solver state s = [iter, x, y, step, status]
SolverStateOK(s) ==
    /\ s.iter <= maxIterations
    /\ s.status \in {"iterating", "converged", "singular", "capped"}
    /\ s.status = "capped" =>
          /\ s.iter = maxIterations
          /\ s.step * ThresholdInverse >= Sub
    /\ s.status = "converged" =>
          /\ s.iter >= 1
          /\ s.step * ThresholdInverse < Sub
    /\ s.status = "iterating" =>
          /\ s.iter < maxIterations
          /\ s.iter >= 1 => s.step * ThresholdInverse >= Sub

\* C24: the solver makes at most maxIterations passes: every pass either
\* ends the run or counts one more iteration, the count never exceeds
\* maxIterations and at maxIterations the run has ended; a run ends earlier
\* exactly when the step is below the convergence threshold or the
\* determinant is singular.
C24_SolverTerminates ==
    [][/\ Solving' => SolverStateOK(probe'.out)
       /\ Solving /\ Solving' =>
             /\ probe.out.status = "iterating"
             /\ \/ probe'.out.status # "iterating"
                \/ probe'.out.iter = probe.out.iter + 1]_vars

\* a run was stopped by the cap, far from the threshold
C24_Witness ==
    /\ Solving
    /\ probe.out.status = "capped"
    /\ probe.out.iter = maxIterations
    /\ probe.out.step > Sub

\* C25: a pass that finds the determinant singular leaves the estimate as
\* it was before the pass (the initial guess in the first pass) and ends
\* the run with that estimate, which is a position.
C25_SingularKeepsEstimate ==
    [][Solving /\ Solving' /\ probe'.out.status = "singular" =>
          /\ probe'.out.x = probe.out.x
          /\ probe'.out.y = probe.out.y
          /\ probe'.out.iter = probe.out.iter
          /\ probe'.out.x \in Int /\ probe'.out.y \in Int
          /\ probe.out.iter = 0 =>
                /\ probe'.out.x = probe.in.guess.x
                /\ probe'.out.y = probe.in.guess.y]_vars

\* the first pass found the determinant singular: the result is the guess
C25_Witness ==
    /\ Solving
    /\ probe.out.status = "singular"
    /\ probe.out.iter = 0
    /\ probe.out.x = probe.in.guess.x
    /\ probe.out.y = probe.in.guess.y

-----------------------------------------------------------------------------
(* Properties of the anchors performTrilateration uses                      *)

\* the radios of the first three measurements of the list ms
FirstThree(ms) == {ms[1].radio, ms[2].radio, ms[3].radio}

\* the first three measurements of ms are those of the three lowest-numbered
\* radios with an rssi of at least minRSSI
InAnchorOrder(ms) ==
    /\ \A j \in 1..(Len(ms) - 1) : ms[j].radio < ms[j + 1].radio
    /\ \A j \in 1..Len(ms) : ms[j].rssi >= minRSSI * Q

-----------------------------------------------------------------------------
(* Properties of dragging                                                   *)

\* the point p is at least 20 pixels inside the canvas
InsideCanvas(p) ==
    /\ 20 <= p.x /\ p.x <= width - 20
    /\ 20 <= p.y /\ p.y <= height - 20

\* C28: after any sequence of mousedown, mousemove, mouseup, mouseleave,
\* radio-count and reset events every radio and the device lie inside
\* [20, width - 20] x [20, height - 20].
C28_InsideCanvas ==
    /\ InsideCanvas(device)
    /\ \A i \in 1..Len(radios) : InsideCanvas(radios[i])

\* a radio or the device was dragged against a corner of that region
C28_Witness ==
    /\ edits >= 2
    /\ dragging # NULL
    /\ \E c \in {Point(20, 20), Point(width - 20, height - 20)} :
          \/ Point(device.x, device.y) = c
          \/ \E i \in 1..Len(radios) : Point(radios[i].x, radios[i].y) = c

\* the positions of the radios and the device
Positions == <<radios, device>>

\* the radios other than the dragged one, and the device, stay where they are
OnlyDraggedMoves ==
    IF dragging.type = "device" THEN radios' = radios
    ELSE /\ device' = device
         /\ Len(radios') = Len(radios)
         /\ \A i \in 1..Len(radios) : i # dragging.id \/ dragging.gen # radiosGen
                                         => radios'[i] = radios[i]

\* the mousedown that made the mesh object the dragged one hit its mesh
HitBy(obj) ==
    \E p \in ClickPoints : /\ Len(Intersects(p)) > 0
                           /\ Intersects(p)[1].ref = obj

\* C29: dragging is a two-state machine.  A mousemove with no drag in
\* progress changes no position; one with a drag in progress moves only the
\* dragged object and keeps the drag; mouseup and mouseleave leave no drag in
\* progress; a mousedown that hits nothing starts none, and one that hits an
\* object starts the drag of that object; a drag starts in no other way, and
\* apart from a new layout (radio count, reset) a position changes only
\* while a drag is in progress.
C29_DragMachine ==
    [][/\ DragMove =>
             IF dragging = NULL THEN Positions' = Positions /\ dragging' = NULL
             ELSE OnlyDraggedMoves /\ dragging' # NULL
                  /\ SameObject(dragging', dragging)
       /\ MouseUp \/ MouseLeave => dragging' = NULL
       /\ MouseDown =>
             /\ Positions' = Positions
             /\ IF \E p \in ClickPoints : Len(Intersects(p)) > 0 /\ HandleMouseDown(p)
                THEN dragging' # NULL /\ HitBy(dragging')
                ELSE dragging' = dragging
       /\ dragging = NULL /\ dragging' # NULL => MouseDown /\ HitBy(dragging')
       /\ Positions' # Positions /\ radiosGen' = radiosGen =>
             /\ dragging # NULL
             /\ DragMove
             /\ OnlyDraggedMoves]_vars

\* a drag in progress has moved a radio away from its place in the layout
C29_Witness ==
    /\ dragging # NULL
    /\ dragging.type = "radio"
    /\ dragging.gen = radiosGen
    /\ radios[dragging.id] # initializeRadios(numRadios)[dragging.id]
    /\ \A i \in 1..Len(radios) :
          i # dragging.id => radios[i] = initializeRadios(numRadios)[i]

-----------------------------------------------------------------------------
(* Properties of the order of the walls                                     *)

\* no two crossings of the list are at the same distance
DistinctDistances(intersections) ==
    \A j, k \in 1..Len(intersections) :
        intersections[j].distance = intersections[k].distance => j = k

\* the place of the wall w in the list walls
PlaceOf(w, walls) == CHOOSE i \in 1..Len(walls) : walls[i] = w

\* crossings at the same distance are in the order of the list walls
TiesInArrayOrder(intersections, walls) ==
    \A j, k \in 1..Len(intersections) :
        j < k /\ intersections[j].distance = intersections[k].distance
            => PlaceOf(intersections[j].wall, walls) < PlaceOf(intersections[k].wall, walls)

\* the drywall and the metal wall through (200, 100), stored in either order
\* and crossed by the path to (300, 100), with the cumulative effect and
\* without the angle effect
TiedWallsSwapped ==
    /\ probe.in.params.walls[1].material = "drywall"
    /\ probe.in.params.walls[2].material = "metal"
    /\ probe.in.params.walls[2].start = Point(150, 50)
    /\ probe.in.order = <<2, 1, 3>>
    /\ probe.in.params.receiver = Point(300, 100)
    /\ probe.in.params.enableCumulativeEffect
    /\ ~probe.in.params.enableAngleEffect

\* C30: calculateRSSIWithWalls does not depend on the order of the walls
\* array when the crossings are at different distances: the intersections,
\* the total attenuation, the rssi and the rest of the result are the same
\* for every order.  Crossings at the same distance keep the order of the
\* array, and with the cumulative effect that order changes the total for
\* the drywall and the metal wall crossed at one point.
C30_WallOrderIrrelevant ==
    probe.op = "permuteWalls" =>
        LET walls     == probe.in.params.walls
            reordered == [i \in 1..Len(walls) |-> walls[probe.in.order[i]]]
            first     == probe.out[1]
            second    == probe.out[2]
        IN  /\ DistinctDistances(first.intersections) => second = first
            /\ TiesInArrayOrder(first.intersections, walls)
            /\ TiesInArrayOrder(second.intersections, reordered)
            /\ TiedWallsSwapped =>
                  /\ ~DistinctDistances(first.intersections)
                  /\ second.totalAttenuation # first.totalAttenuation

\* three or more walls crossed at different distances, stored in an order
\* that is not the order of the crossings, and in another order
C30_Witness ==
    /\ probe.op = "permuteWalls"
    /\ probe.out[1].wallCount >= 3
    /\ DistinctDistances(probe.out[1].intersections)
    /\ probe.in.params.enableCumulativeEffect
    /\ probe.in.order # [i \in 1..Len(probe.in.params.walls) |-> i]
    /\ \E j \in 1..2 : PlaceOf(probe.out[1].intersections[j].wall, probe.in.params.walls)
                         > PlaceOf(probe.out[1].intersections[j + 1].wall,
                                   probe.in.params.walls)
    /\ probe.out[2] = probe.out[1]

====
